---- MODULE Spec2Model ----
(***************************************************************************)
(* Model of the CID-corruption repair tooling of rsky:                     *)
(*   fix_cid_corruption.py    identifier codec, document repair, batch     *)
(*                            migration driver                             *)
(*   test_fix_single_record.py  the single-record variant of codec/repair  *)
(*   test_cid_conversion.py   the reverse (base32 decode) step             *)
(*                                                                         *)
(* JSON values are tagged tuples <<tag, payload>>:                         *)
(*   <<"int", n>>  <<"float", n>>  <<"str", chars>>  <<"list", seq>>       *)
(*   <<"dict", seq of <<key, value>>>>   (insertion-ordered, unique keys)  *)
(* Strings that the code builds (CID strings) are sequences of             *)
(* one-character strings, so that they can be indexed.                     *)
(***************************************************************************)
EXTENDS Integers, Sequences, FiniteSets, TLC

VARIABLES
    HAS_CID_LIB,   \* fix_cid_corruption.py:19-25, outcome of the import
    byte_array,    \* codec harness: first input list
    byte_array2,   \* codec harness: second input list
    cid,           \* codec harness: outcome of bytes_to_cid(byte_array)
    cid2,          \* codec harness: outcome of bytes_to_cid(byte_array2)
    cid_single,    \* outcome of bytes_to_cid of test_fix_single_record.py
    cid_v1,        \* outcome of bytes_to_cid_v1 of test_cid_conversion.py
    inputJson,     \* repair harness: the JSON text given to fix_json_cids
    firstRun,      \* repair harness: outcome of fix_json_cids(inputJson)
    secondRun,     \* repair harness: outcome of fix_json_cids on firstRun's text
    singleRun,     \* repair harness: outcome of the single-record variant
    store,         \* record table, committed: uri -> json text
    store0,        \* the record table when the run started
    pending,       \* updates of the open transaction: uri -> json text
    txn,           \* the open transaction: "ok", or "aborted" by a failed statement
    indexedAt,     \* record table, the other column: uri -> timestamp
    dry_run,       \* migrate(dry_run, limit, batch_size, skip_count)
    limit,         \* 0 stands for None (both are falsy in "if limit")
    batch_size,
    skip_count,
    pc,            \* where migrate() is: start, fetch, fix, commit, done
    total_to_fix,
    last_uri,      \* 0 stands for None
    total_processed,
    total_fixed,
    total_cids_fixed,
    records,       \* the page fetched: sequence of <<uri, json>>
    idx,           \* position of the for loop in records
    batch_fixed,
    batch_cids_fixed,
    processed,     \* history: the uris the for loop has handled in this run
    reported,      \* history: records announced by "Committed N records"
    earlier,       \* history: what the run interrupted before this one had reached
    self,          \* which of two runs on the same table is taking steps: 1 or 2
    other,         \* the locals and the transaction of the run that is not
    writers,       \* history: uri -> the runs that committed an update of it
    test,          \* main(): args.test
    yes,           \* main(): args.yes
    response,      \* main(): what the operator types at the confirmation prompt
    start_date,    \* repo_integrity_checker.py main(): sys.argv[2], 0 stands for None
    end_date,      \* sys.argv[3], 0 stands for None
    repo,          \* the PDS: collection -> the records it lists, in key order
    record_table,  \* PostgreSQL: the uris of the rows of table record
    redis_streams, \* Redis: stream name -> its messages, newest first
    step,          \* where the checker is: list, query, diff, scan, done, crashed
    coll,          \* fetch_records_via_xrpc: position of the for loop in collections
    cursor,        \* fetch_records_via_xrpc: listRecords cursor, NoKey stands for None
    pds_records,   \* collection -> the records fetched
    total_pds,
    list_log,      \* history: the listRecords requests made, each <<collection,
                   \* cursor, "answered", cursor returned, records returned>> or
                   \* <<collection, cursor, "answered" or "failed">>
    indexed_records, \* collection -> the set of rkeys indexed
    missing,       \* collection -> the records not indexed
    total_missing,
    strm,          \* verify_missing_records_in_redis: position in streams
    batch,         \* position of the for loop over range(max_batches)
    scan_cursor,   \* xrevrange max: "+" or a message id
    all_found,     \* rkey -> <<stream, msg_id>>, as a set of <<rkey, stream, msg_id>>
    not_found_count,
    scan_log,      \* history: the xrevrange requests made, each
                   \* <<stream, max, "answered" or "failed", ids returned>>
    tool_found     \* verify_missing_records.py: all_found of verify_all_missing

codecVars == <<byte_array, byte_array2, cid, cid2, cid_single, cid_v1>>
repairVars == <<inputJson, firstRun, secondRun, singleRun>>
dbVars == <<store, pending, txn, indexedAt>>
argVars == <<dry_run, limit, batch_size, skip_count, store0>>
totalVars == <<total_processed, total_fixed, total_cids_fixed>>
batchVars == <<records, idx, batch_fixed, batch_cids_fixed>>
runVars == <<pc, total_to_fix, last_uri, totalVars, batchVars, processed>>
historyVars == <<reported, earlier>>
overlapVars == <<self, other, writers>>
cliVars == <<test, yes, response>>
checkerArgs == <<start_date, end_date>>
servers == <<repo, record_table, redis_streams>>
fetchVars == <<coll, cursor, pds_records, total_pds, list_log>>
diffVars == <<indexed_records, missing, total_missing>>
scanVars == <<strm, batch, scan_cursor, all_found, not_found_count, scan_log, tool_found>>
checkerVars == <<checkerArgs, servers, step, fetchVars, diffVars, scanVars>>
migrateVars == <<dbVars, argVars, runVars, historyVars, overlapVars>>
vars == <<HAS_CID_LIB, codecVars, repairVars, migrateVars, cliVars, checkerVars>>

----------------------------------------------------------------------------
(* Bounds of the model *)

\* digests 0..MaxDigest are drawn for the codec inputs
MaxDigest == 1
\* the record table holds the uris 1..MaxUri
MaxUri == 2
\* batch_size is drawn from 1..MaxBatchSize
MaxBatchSize == 2
\* limit is drawn from 0..MaxLimit
MaxLimit == 2
\* the PDS lists records with the rkeys 1..MaxRkey
MaxRkey == 2
\* the days of the time window are drawn from 1..MaxDay
MaxDay == 2
\* a Redis stream holds up to MaxStream messages
MaxStream == 4

----------------------------------------------------------------------------
(* Program constants *)

CID_VERSION == 1
RAW_CODEC == 85
SHA256 == 18
HASH_LEN == 32
CID_LEN == 36

----------------------------------------------------------------------------
(* JSON values *)

JInt(n) == <<"int", n>>
JFloat(n) == <<"float", n>>
JStr(s) == <<"str", s>>
JList(s) == <<"list", s>>
JDict(s) == <<"dict", s>>

Tag(x) == x[1]
Val(x) == x[2]

Ints(s) == [i \in 1..Len(s) |-> JInt(s[i])] \o <<>>

\* Python ==/!= between a JSON value and an int literal: 1 == 1.0 is True
PyEqInt(x, n) == Tag(x) \in {"int", "float"} /\ Val(x) = n

\* bytes(list): raises unless every element is an int in range(256)
BytesOk(s) == \A i \in DOMAIN s : Tag(s[i]) = "int" /\ Val(s[i]) \in 0..255
Bytes(s) == [i \in 1..Len(s) |-> Val(s[i])] \o <<>>

----------------------------------------------------------------------------
(* Strings as sequences of characters *)

UpperLetters ==
    <<"A","B","C","D","E","F","G","H","I","J","K","L","M",
      "N","O","P","Q","R","S","T","U","V","W","X","Y","Z">>
LowerLetters ==
    <<"a","b","c","d","e","f","g","h","i","j","k","l","m",
      "n","o","p","q","r","s","t","u","v","w","x","y","z">>
B32Alphabet == UpperLetters \o <<"2","3","4","5","6","7">>

Range(seq) == {seq[k] : k \in DOMAIN seq}
IndexOf(seq, c) == CHOOSE k \in DOMAIN seq : seq[k] = c

\* the characters that occur in the strings of the model
Chars == Range(UpperLetters) \cup Range(LowerLetters)
           \cup {"2", "3", "4", "5", "6", "7", "="}

LowerOf ==
    [c \in Chars |->
        IF c \in Range(UpperLetters) THEN LowerLetters[IndexOf(UpperLetters, c)] ELSE c]
UpperOf ==
    [c \in Chars |->
        IF c \in Range(LowerLetters) THEN UpperLetters[IndexOf(LowerLetters, c)] ELSE c]

\* str.lower()
str_lower(s) == [i \in 1..Len(s) |-> LowerOf[s[i]]] \o <<>>

\* str.upper()
str_upper(s) == [i \in 1..Len(s) |-> UpperOf[s[i]]] \o <<>>

\* str.rstrip('=')
RECURSIVE StrippedLen(_, _)
StrippedLen(s, n) == IF n = 0 \/ s[n] # "=" THEN n ELSE StrippedLen(s, n - 1)
rstrip_eq(s) == SubSeq(s, 1, StrippedLen(s, Len(s)))

----------------------------------------------------------------------------
(* base64.b32encode / base64.b32decode (RFC 4648) *)

Pow2 == [n \in 0..11 |-> 2 ^ n]

\* byte i (1-based) of a byte string, 0 past its end
ByteAt(bs, i) == IF i <= Len(bs) THEN bs[i] ELSE 0

\* the k-th (0-based) 5-bit group of the bit stream, most significant bit
\* first: it lies in the 16 bits of the byte it starts in and the next one
Quintet(bs, k) ==
    ((256 * ByteAt(bs, (5*k) \div 8 + 1) + ByteAt(bs, (5*k) \div 8 + 2))
        \div Pow2[11 - ((5*k) % 8)]) % 32

b32encode(bs) ==
    LET nchars == (8 * Len(bs) + 4) \div 5
        total  == ((nchars + 7) \div 8) * 8
    IN  [k \in 1..total |->
            IF k <= nchars THEN B32Alphabet[Quintet(bs, k - 1) + 1] ELSE "="] \o <<>>

B32Value == [c \in Range(B32Alphabet) |-> IndexOf(B32Alphabet, c) - 1]

\* the 5-bit value of character i (1-based) of the data, 0 past its end
ValueAt(s, i) == IF i <= Len(s) THEN B32Value[s[i]] ELSE 0

\* the m-th (0-based) byte of the stream of 5-bit values: it lies in the 15
\* bits of the character it starts in and the next two
Octet(s, m) ==
    ((1024 * ValueAt(s, (8*m) \div 5 + 1) + 32 * ValueAt(s, (8*m) \div 5 + 2)
        + ValueAt(s, (8*m) \div 5 + 3)) \div Pow2[7 - ((8*m) % 5)]) % 256

b32decode(s) ==
    LET data   == rstrip_eq(s)
        nbytes == (5 * Len(data)) \div 8
    IN  [m \in 1..nbytes |-> Octet(data, m - 1)] \o <<>>

\* test_cid_conversion.py: strip the prefix, upper-case, pad, decode
ReverseBase32(s) ==
    LET encoded_upper  == str_upper(Tail(s))
        padding_needed == (8 - (Len(encoded_upper) % 8)) % 8
        encoded_padded == encoded_upper \o [i \in 1..padding_needed |-> "="]
    IN  b32decode(encoded_padded)

----------------------------------------------------------------------------
(* Outcome of a call: a returned string, or a raised exception *)

Ok(s) == <<"ok", s>>
Raised == <<"raise", <<>>>>
NotRun == <<"none", <<>>>>
IsOk(r) == r[1] = "ok"
IsRaised(r) == r[1] = "raise"

----------------------------------------------------------------------------
(* bytes_to_cid, fix_cid_corruption.py *)

\* 'b' + base32 of all the bytes, lower-cased, padding stripped
CidV1SkipVersion(bs) == <<"b">> \o rstrip_eq(str_lower(b32encode(Tail(bs))))
CidKeepPadding(bs) == <<"b">> \o str_lower(b32encode(bs))
CidString(bs) == <<"b">> \o rstrip_eq(str_lower(b32encode(bs)))

\* The multiformats library: CID.decode(bytes) then str().  It is a general
\* decoder: any CIDv1 with a registered content codec and a registered
\* multihash whose declared digest size matches the bytes that follow is
\* accepted, and printed in base32 with the 'b' prefix.  The tables below
\* are a part of the library's tables (single-byte codes only).
LibCodecs == {85, 112, 113}          \* raw, dag-pb, dag-cbor
LibHashSize(h, n) ==
    \/ h = 18 /\ n = 32              \* sha2-256
    \/ h = 19 /\ n = 64              \* sha2-512
    \/ h = 0                         \* identity, any size
LibAccepts(bs) ==
    /\ Len(bs) >= 4
    /\ bs[1] = 1
    /\ bs[2] \in LibCodecs
    /\ LibHashSize(bs[3], bs[4])
    /\ Len(bs) = bs[4] + 4
LibDecode(l) ==
    IF BytesOk(l) /\ LibAccepts(Bytes(l)) THEN Ok(CidString(Bytes(l))) ELSE Raised

\* lines 64-102: the manual implementation
ManualBytesToCid(l) ==
    IF Len(l) < 4 THEN Raised
    ELSE IF ~PyEqInt(l[1], CID_VERSION) THEN Raised
    ELSE IF ~PyEqInt(l[2], RAW_CODEC) THEN Raised
    ELSE IF ~PyEqInt(l[3], SHA256) THEN Raised
    ELSE IF ~PyEqInt(l[4], HASH_LEN) THEN Raised
    ELSE IF Len(l) # HASH_LEN + 4 THEN Raised
    ELSE IF ~BytesOk(l) THEN Raised
    ELSE Ok(CidString(Bytes(l)))

\* lines 54-62, then the manual implementation
bytes_to_cid(l) ==
    LET cid_obj == IF HAS_CID_LIB THEN LibDecode(l) ELSE Raised
    IN  IF IsOk(cid_obj) THEN cid_obj ELSE ManualBytesToCid(l)

\* bytes_to_cid_v1, test_cid_conversion.py lines 18-53; the prints of lines
\* 25-26 format codec and hash_fn with ":02x", which raises for a value
\* that is no int
bytes_to_cid_v1(l) ==
    IF Len(l) # CID_LEN THEN Raised
    ELSE IF Tag(l[2]) # "int" \/ Tag(l[3]) # "int" THEN Raised
    ELSE IF ~PyEqInt(l[1], CID_VERSION) THEN Raised
    ELSE IF ~PyEqInt(l[2], RAW_CODEC) THEN Raised
    ELSE IF ~PyEqInt(l[3], SHA256) THEN Raised
    ELSE IF ~PyEqInt(l[4], HASH_LEN) THEN Raised
    ELSE IF ~BytesOk(Tail(l)) THEN Raised
    ELSE Ok(<<"b">> \o rstrip_eq(str_lower(b32encode(Bytes(Tail(l))))))

----------------------------------------------------------------------------
(* Codec inputs *)

\* the digest of the example of fix_cid_corruption.py:312
TestDigest ==
    <<53, 200, 170, 252, 248, 164, 102, 188, 130, 25, 215, 52, 203, 146, 215, 60,
      77, 125, 126, 70, 180, 46, 207, 17, 225, 206, 211, 81, 108, 209, 83, 250>>
TestCid ==
    <<"b","a","f","k","r","e","i","b","v","z","c","v","p","z","6","f","e","m","2",
      "6","i","e","g","o","x","g","t","f","z","f","v","z","4","j","v","6","x","4",
      "r","v","u","f","3","h","r","d","y","o","o","2","n","i","w","z","u","k","t",
      "7","i">>

DigestNo(i) == [k \in 1..32 |-> (TestDigest[k] + i * k) % 256] \o <<>>
Digests == {DigestNo(i) : i \in 0..MaxDigest}

Header == <<CID_VERSION, RAW_CODEC, SHA256, HASH_LEN>>
ValidBytes(d) == Header \o d

\* one header field changed
HeaderAlternatives == <<{0, 2}, {112, 113}, {0, 19}, {31, 33}>>
BadHeaders ==
    UNION {{[Header EXCEPT ![p] = v] : v \in HeaderAlternatives[p]} : p \in 1..4}

\* lists handed to bytes_to_cid: on profile, one header field off, wrong
\* lengths, elements that are no bytes, and CIDs of other profiles
CodecInputs ==
    {Ints(ValidBytes(d)) : d \in Digests}
      \cup {Ints(h \o d) : h \in BadHeaders, d \in Digests}
      \cup {Ints(SubSeq(ValidBytes(d), 1, 35)) : d \in Digests}
      \cup {Ints(ValidBytes(d) \o <<0>>) : d \in Digests}
      \cup {[Ints(ValidBytes(d)) EXCEPT ![36] = JInt(256)] : d \in Digests}
      \cup {[Ints(ValidBytes(d)) EXCEPT ![1] = JFloat(1)] : d \in Digests}
      \cup {[Ints(ValidBytes(d)) EXCEPT ![20] = JStr(<<"x">>)] : d \in Digests}
      \cup {<<>>, Ints(<<1, 85, 18>>), Ints(Header), Ints(<<1, 85, 0, 2, 7, 9>>),
            Ints(<<1, 85, 19, 64>> \o TestDigest \o TestDigest)}

----------------------------------------------------------------------------
(* fix_json_cids / fix_recursive, fix_cid_corruption.py *)

\* 'ref' in obj and isinstance(obj['ref'], list), on one entry of a mapping
IsRefEntry(entry) == entry[1] = "ref" /\ Tag(entry[2]) = "list"

\* {'$link': cid_string}
Link(cid_string) == JDict(<< <<"$link", JStr(cid_string)>> >>)

RECURSIVE SumSeq(_)
SumSeq(ns) == IF ns = <<>> THEN 0 ELSE Head(ns) + SumSeq(Tail(ns))

\* fixes_made incremented outside the try block
ConvertRefCountsFailures(entry) ==
    IF entry[1] = "ref" /\ Tag(entry[2]) = "list"
    THEN LET cid_string == bytes_to_cid(Val(entry[2]))
         IN  IF IsOk(cid_string) THEN << <<"ref", Link(cid_string[2])>>, 1 >>
             ELSE <<entry, 1>>
    ELSE <<entry, 0>>
\* the assignment obj['ref'] = ... left out
ConvertRefCountOnly(entry) ==
    IF entry[1] = "ref" /\ Tag(entry[2]) = "list"
    THEN LET cid_string == bytes_to_cid(Val(entry[2]))
         IN  IF IsOk(cid_string) THEN <<entry, 1>> ELSE <<entry, 0>>
    ELSE <<entry, 0>>
\* the test 'ref' in obj left out: any list is tried
ConvertAnyKey(entry) ==
    IF Tag(entry[2]) = "list"
    THEN LET cid_string == bytes_to_cid(Val(entry[2]))
         IN  IF IsOk(cid_string) THEN << <<entry[1], Link(cid_string[2])>>, 1 >>
             ELSE <<entry, 0>>
    ELSE <<entry, 0>>
\* lines 127-135 on one entry of a mapping: <<the entry afterwards, fixes made>>
ConvertRef(entry) ==
    IF entry[1] = "ref" /\ Tag(entry[2]) = "list"
    THEN LET cid_string == bytes_to_cid(Val(entry[2]))
         IN  IF IsOk(cid_string) THEN << <<"ref", Link(cid_string[2])>>, 1 >>
             ELSE <<entry, 0>>
    ELSE <<entry, 0>>

\* fix_recursive(obj): <<the value returned, fixes made in it>>
RECURSIVE fix_recursive(_), FixItems(_)
FixItems(items) ==
    IF items = <<>> THEN <<>>
    ELSE <<fix_recursive(Head(items))>> \o FixItems(Tail(items))
\* the branch for lists left out
fix_recursive_no_lists(obj) ==
    IF Tag(obj) = "dict"
    THEN LET entries   == Val(obj)
             converted == [i \in 1..Len(entries) |-> ConvertRef(entries[i])] \o <<>>
             items     == FixItems([i \in 1..Len(entries) |-> converted[i][1][2]])
         IN  << JDict([i \in 1..Len(entries) |-> <<converted[i][1][1], items[i][1]>>] \o <<>>),
                SumSeq([i \in 1..Len(entries) |-> converted[i][2] + items[i][2]]) >>
    ELSE <<obj, 0>>
fix_recursive(obj) ==
    IF Tag(obj) = "dict"
    THEN LET entries   == Val(obj)
             converted == [i \in 1..Len(entries) |-> ConvertRef(entries[i])] \o <<>>
             items     == FixItems([i \in 1..Len(entries) |-> converted[i][1][2]])
         IN  << JDict([i \in 1..Len(entries) |-> <<converted[i][1][1], items[i][1]>>] \o <<>>),
                SumSeq([i \in 1..Len(entries) |-> converted[i][2] + items[i][2]]) >>
    ELSE IF Tag(obj) = "list"
    THEN LET items == FixItems(Val(obj))
         IN  << JList([i \in 1..Len(items) |-> items[i][1]] \o <<>>),
                SumSeq([i \in 1..Len(items) |-> items[i][2]]) >>
    ELSE <<obj, 0>>

\* A record body is JSON text: <<format, value>>.  The format is what the
\* text looks like around separators: "compact" (no white space, as the
\* indexer writes it), "spaced" (json.dumps' default ', ' and ': '), or
\* "truncated" (compact text cut off after a "ref":[ , which does not parse).
Compact(doc) == <<"compact", doc>>
Spaced(doc) == <<"spaced", doc>>
Truncated(doc) == <<"truncated", doc>>

\* json.loads: raises on text that does not parse
json_loads_ok(json_str) == json_str[1] \in {"compact", "spaced"}
json_loads(json_str) == json_str[2]
\* json.dumps(..., ensure_ascii=False): default separators
json_dumps(data) == Spaced(data)

\* json.loads given the text up to the point where it stops parsing
fix_json_cids_lenient(json_str) ==
    LET fixed == fix_recursive(json_loads(json_str))
    IN  <<"ok", <<json_dumps(fixed[1]), fixed[2]>>>>
\* fix_json_cids(json_str): <<"ok", <<fixed_json, fixes_made>>>> or raised
fix_json_cids(json_str) ==
    IF ~json_loads_ok(json_str) THEN <<"raise", <<>>>>
    ELSE LET fixed == fix_recursive(json_loads(json_str))
         IN  <<"ok", <<json_dumps(fixed[1]), fixed[2]>>>>

----------------------------------------------------------------------------
(* The single-record variant, test_fix_single_record.py *)

single_bytes_to_cid(l) ==
    IF Len(l) # CID_LEN THEN Raised
    ELSE IF ~PyEqInt(l[1], CID_VERSION) \/ ~PyEqInt(l[2], RAW_CODEC)
              \/ ~PyEqInt(l[3], SHA256) \/ ~PyEqInt(l[4], HASH_LEN) THEN Raised
    ELSE IF ~BytesOk(l) THEN Raised
    ELSE Ok(CidString(Bytes(l)))

SingleConvertRef(entry) ==
    IF entry[1] = "ref" /\ Tag(entry[2]) = "list" /\ Len(Val(entry[2])) = CID_LEN
    THEN LET cid_string == single_bytes_to_cid(Val(entry[2]))
         IN  IF IsOk(cid_string) THEN << <<"ref", Link(cid_string[2])>>, 1 >>
             ELSE <<entry, 0>>
    ELSE <<entry, 0>>

RECURSIVE single_fix_recursive(_), SingleFixItems(_)
SingleFixItems(items) ==
    IF items = <<>> THEN <<>>
    ELSE <<single_fix_recursive(Head(items))>> \o SingleFixItems(Tail(items))
single_fix_recursive(obj) ==
    IF Tag(obj) = "dict"
    THEN LET entries   == Val(obj)
             converted == [i \in 1..Len(entries) |-> SingleConvertRef(entries[i])] \o <<>>
             items     == SingleFixItems([i \in 1..Len(entries) |-> converted[i][1][2]])
         IN  << JDict([i \in 1..Len(entries) |-> <<converted[i][1][1], items[i][1]>>] \o <<>>),
                SumSeq([i \in 1..Len(entries) |-> converted[i][2] + items[i][2]]) >>
    ELSE IF Tag(obj) = "list"
    THEN LET items == SingleFixItems(Val(obj))
         IN  << JList([i \in 1..Len(items) |-> items[i][1]] \o <<>>),
                SumSeq([i \in 1..Len(items) |-> items[i][2]]) >>
    ELSE <<obj, 0>>

\* json.loads raising is not caught in this variant: the call raises
single_fix_json_cids(json_str) ==
    IF ~json_loads_ok(json_str) THEN <<"raise", <<>>>>
    ELSE LET fixed == single_fix_recursive(json_loads(json_str))
         IN  <<"ok", <<json_dumps(fixed[1]), fixed[2]>>>>

----------------------------------------------------------------------------
(* Documents *)

\* values found under a key: scalars, a canonical link, and lists
RefLists ==
    {Ints(ValidBytes(d)) : d \in Digests}
      \cup { Ints([Header EXCEPT ![2] = 113] \o TestDigest),   \* dag-cbor CID
             Ints([Header EXCEPT ![1] = 2] \o TestDigest),     \* version 2
             [Ints(ValidBytes(TestDigest)) EXCEPT ![9] = JStr(<<"x">>)],
             Ints(<<1, 2, 3>>),                                \* a short array
             Ints(<<1, 85, 0, 2, 7, 9>>),                      \* identity-hash CID
             <<>> }
Leaves ==
    {JInt(7), Link(TestCid)} \cup {JList(l) : l \in RefLists}

Keys == {"ref", "a"}
Level1 ==
    Leaves
      \cup {JDict(<< <<k, x>> >>) : k \in Keys, x \in Leaves}
      \cup {JDict(<< <<"a", x>>, <<"ref", y>> >>) : x \in Leaves, y \in Leaves}
      \cup {JDict(<< <<"ref", x>>, <<"a", y>> >>) : x \in Leaves, y \in Leaves}
      \cup {JList(<<x, y>>) : x \in Leaves, y \in Leaves}
\* one more level: under a key, in a list, inside the value of a "ref", and
\* beside a "ref" the codec accepts or rejects
Documents ==
    Level1
      \cup {JDict(<< <<"a", d>> >>) : d \in Level1}
      \cup {JList(<<d>>) : d \in Level1}
      \cup {JDict(<< <<"ref", JList(<<d>>)>> >>) : d \in Level1}
      \cup {JDict(<< <<"ref", JList(r)>>, <<"a", d>> >>) :
                r \in {Ints(ValidBytes(TestDigest)), Ints(<<1, 2, 3>>)},
                d \in {JDict(<< <<"ref", x>> >>) : x \in Leaves}}

----------------------------------------------------------------------------
(* The record table and its queries, fix_cid_corruption.py *)

\* uris are non-empty strings; their order is the order of these numbers
Uris == 1..MaxUri
NoUri == 0
NoBody == <<"none", JInt(0)>>
NoUpdates == [u \in Uris |-> NoBody]

\* the indexedAt column when a run starts: records were indexed in uri order
IndexedAt0 == [u \in Uris |-> u]

\* what a statement of the connection sees: its own updates, else the table
Visible(db, upd, u) == IF upd[u] # NoBody THEN upd[u] ELSE db[u]

\* a mapping entry "ref" whose value is a sequence, at any depth
RECURSIVE HasRefList(_)
HasRefList(x) ==
    IF Tag(x) = "dict"
    THEN \E i \in 1..Len(Val(x)) : IsRefEntry(Val(x)[i]) \/ HasRefList(Val(x)[i][2])
    ELSE IF Tag(x) = "list"
    THEN \E i \in 1..Len(Val(x)) : HasRefList(Val(x)[i])
    ELSE FALSE

\* json LIKE '%"ref":[%': the text holds "ref":[ with nothing between the
\* colon and the bracket, which json.dumps' ': ' separator does not write
Like(json_text) ==
    /\ json_text[1] \in {"compact", "truncated"}
    /\ HasRefList(json_text[2])

RECURSIVE Ascending(_)
Ascending(S) ==
    IF S = {} THEN <<>>
    ELSE LET m == CHOOSE x \in S : \A y \in S : x <= y
         IN  <<m>> \o Ascending(S \ {m})

FirstN(q, n) == SubSeq(q, 1, IF Len(q) < n THEN Len(q) ELSE n)

\* AND uri >= %s in place of AND uri > %s
get_broken_records_batch_from(db, upd, after, n) ==
    LET rows == {u \in Uris : Like(Visible(db, upd, u)) /\ u >= after}
        page == FirstN(Ascending(rows), n)
    IN  [i \in 1..Len(page) |-> <<page[i], Visible(db, upd, page[i])>>] \o <<>>
\* OFFSET by the number of records processed in place of AND uri > %s
get_broken_records_batch_offset(db, upd, after, n) ==
    LET rows == Ascending({u \in Uris : Like(Visible(db, upd, u))})
        page == FirstN(SubSeq(rows, total_processed + 1, Len(rows)), n)
    IN  [i \in 1..Len(page) |-> <<page[i], Visible(db, upd, page[i])>>] \o <<>>

\* get_broken_records_batch(cursor, last_uri, limit)
get_broken_records_batch(db, upd, after, n) ==
    LET rows == IF after # NoUri
                THEN {u \in Uris : Like(Visible(db, upd, u)) /\ u > after}
                ELSE {u \in Uris : Like(Visible(db, upd, u))}
        page == FirstN(Ascending(rows), n)
    IN  [i \in 1..Len(page) |-> <<page[i], Visible(db, upd, page[i])>>] \o <<>>

\* count_broken_records(cursor)
count_broken_records(db, upd) ==
    Cardinality({u \in Uris : Like(Visible(db, upd, u))})

\* update_record(cursor, uri, fixed_json)
update_record(upd, u, fixed_json) == [upd EXCEPT ![u] = fixed_json]

\* conn.commit(): the updates become the table; the COMMIT of a transaction
\* that a failed statement aborted is answered by a rollback, without error
commit(db, upd, status) ==
    IF status = "aborted" THEN db ELSE [u \in Uris |-> Visible(db, upd, u)]

\* the runs that have committed an update of each record, after this commit
commit_writers(w, upd, status, run) ==
    IF status = "aborted" THEN w
    ELSE [u \in Uris |-> IF upd[u] # NoBody THEN w[u] \cup {run} ELSE w[u]]

\* the columns the UPDATE statement sets (line 203)
SetColumnsWithTimestamp == {"json", "indexedAt"}
SetColumns == {"json"}

\* the time of a run, later than every indexedAt of the table
Now == MaxUri + 1

\* the indexedAt column after the commit of these updates
commit_indexedAt(ts, upd, status) ==
    IF status = "aborted" THEN ts
    ELSE [u \in Uris |->
            IF upd[u] # NoBody /\ "indexedAt" \in SetColumns THEN Now ELSE ts[u]]

----------------------------------------------------------------------------
(* Record bodies the table may hold when a run starts *)

RefTo(l) == JDict(<< <<"ref", JList(l)>> >>)
OneCorruptedRef == RefTo(Ints(ValidBytes(TestDigest)))
TwoCorruptedRefs == JList(<<OneCorruptedRef, RefTo(Ints(ValidBytes(DigestNo(1))))>>)
Bodies ==
    { Compact(OneCorruptedRef),            \* as the indexer wrote it
      Compact(TwoCorruptedRefs),
      Compact(RefTo(Ints(<<1, 2, 3>>))),   \* a candidate that holds no CID
      Truncated(OneCorruptedRef),          \* a candidate that does not parse
      Spaced(OneCorruptedRef),             \* the same document, other separators
      Compact(JDict(<< <<"a", JInt(7)>> >>)) }

----------------------------------------------------------------------------
(* migrate(dry_run, limit, batch_size, skip_count), fix_cid_corruption.py *)

\* float('inf')
INF == -1

Min(a, b) == IF a < b THEN a ELSE b

\* lines 222-241
Counting ==
    /\ pc = "start"
    /\ total_to_fix' =
         IF skip_count
         THEN (IF limit # 0 THEN limit ELSE INF)
         ELSE LET total_broken == count_broken_records(store, pending)
              IN  IF limit # 0 THEN Min(limit, total_broken) ELSE total_broken
    /\ last_uri' = NoUri
    /\ total_processed' = 0
    /\ total_fixed' = 0
    /\ total_cids_fixed' = 0
    /\ processed' = <<>>
    /\ pc' = "fetch"
    /\ UNCHANGED <<HAS_CID_LIB, cliVars, checkerVars, codecVars, repairVars, dbVars, argVars, batchVars,
                   historyVars, overlapVars>>

\* the fetch without "if not records: break": after an empty page the for
\* loop has nothing to do and the batch is committed
FetchingWithoutBreak ==
    /\ pc = "fetch"
    /\ \E page \in {get_broken_records_batch(store, pending, last_uri, batch_size)} :
           /\ records' = page
           /\ pc' = IF page = <<>> THEN "commit" ELSE "fix"
    /\ idx' = 1
    /\ batch_fixed' = 0
    /\ batch_cids_fixed' = 0
    /\ UNCHANGED <<HAS_CID_LIB, cliVars, checkerVars, codecVars, repairVars, dbVars, argVars,
                   total_to_fix, last_uri, totalVars, processed, historyVars, overlapVars>>

\* lines 243-254; an empty page leaves the loop, and the finally block closes
\* the connection, which drops what was not committed
Fetching ==
    /\ pc = "fetch"
    /\ \E page \in {get_broken_records_batch(store, pending, last_uri, batch_size)} :
           /\ records' = page
           /\ pc' = IF page = <<>> THEN "done" ELSE "fix"
           /\ pending' = IF page = <<>> THEN NoUpdates ELSE pending
    /\ idx' = 1
    /\ batch_fixed' = 0
    /\ batch_cids_fixed' = 0
    /\ UNCHANGED <<HAS_CID_LIB, cliVars, checkerVars, codecVars, repairVars, store, txn, indexedAt, argVars,
                   total_to_fix, last_uri, totalVars, processed, historyVars, overlapVars>>

\* the UPDATE of this row waits while the transaction of the other run
\* holds an update of it that is not committed
LockedByOther(u) == other[2][u] # NoBody

\* lines 261-265: the record is written
WritesRecordInAnyMode(num_fixes) == num_fixes > 0
WritesRecordWithoutFixes(num_fixes) == ~dry_run
WritesRecord(num_fixes) == num_fixes > 0 /\ ~dry_run

\* lines 256-277: one iteration of the for loop (result is bound by \E so
\* that the call of line 259 is evaluated once)
Fixing ==
    /\ pc = "fix"
    /\ \E result \in {fix_json_cids(records[idx][2])} :
       LET uri    == records[idx][1]
           num_fixes == IF IsOk(result) THEN result[2][2] ELSE 0
       IN  /\ (IsOk(result) /\ WritesRecord(num_fixes)) =>
                 (txn = "ok" /\ ~LockedByOther(uri))
           /\ pending' = IF IsOk(result) /\ WritesRecord(num_fixes)
                         THEN update_record(pending, uri, result[2][1])
                         ELSE pending
           /\ batch_fixed' = IF num_fixes > 0 THEN batch_fixed + 1 ELSE batch_fixed
           /\ batch_cids_fixed' = batch_cids_fixed + num_fixes
           /\ last_uri' = uri
           /\ processed' = Append(processed, uri)
    /\ idx' = idx + 1
    /\ pc' = IF idx = Len(records) THEN "commit" ELSE "fix"
    /\ UNCHANGED <<HAS_CID_LIB, cliVars, checkerVars, codecVars, repairVars, store, txn, indexedAt, argVars,
                   total_to_fix, totalVars, records, historyVars, overlapVars>>

\* the commit step with "=" in place of "+=" at lines 283-285
CommittingLastBatchOnly ==
    /\ pc = "commit"
    /\ store' = IF ~dry_run THEN commit(store, pending, txn) ELSE store
    /\ indexedAt' = IF ~dry_run THEN commit_indexedAt(indexedAt, pending, txn) ELSE indexedAt
    /\ pending' = IF ~dry_run THEN NoUpdates ELSE pending
    /\ txn' = IF ~dry_run THEN "ok" ELSE txn
    /\ reported' = IF ~dry_run THEN reported + batch_fixed ELSE reported
    /\ writers' = IF ~dry_run THEN commit_writers(writers, pending, txn, self) ELSE writers
    /\ total_processed' = total_processed + Len(records)
    /\ total_fixed' = batch_fixed
    /\ total_cids_fixed' = batch_cids_fixed
    /\ pc' = IF limit # 0 /\ total_processed' >= limit THEN "done" ELSE "fetch"
    /\ UNCHANGED <<HAS_CID_LIB, cliVars, checkerVars, codecVars, repairVars, argVars,
                   total_to_fix, last_uri, batchVars, processed, earlier, self, other>>

\* lines 279-298: commit, totals, limit
Committing ==
    /\ pc = "commit"
    /\ store' = IF ~dry_run THEN commit(store, pending, txn) ELSE store
    /\ indexedAt' = IF ~dry_run THEN commit_indexedAt(indexedAt, pending, txn) ELSE indexedAt
    /\ pending' = IF ~dry_run THEN NoUpdates ELSE pending
    /\ txn' = IF ~dry_run THEN "ok" ELSE txn
    /\ reported' = IF ~dry_run THEN reported + batch_fixed ELSE reported
    /\ writers' = IF ~dry_run THEN commit_writers(writers, pending, txn, self) ELSE writers
    /\ total_processed' = total_processed + Len(records)
    /\ total_fixed' = total_fixed + batch_fixed
    /\ total_cids_fixed' = total_cids_fixed + batch_cids_fixed
    /\ pc' = IF limit # 0 /\ total_processed' >= limit THEN "done" ELSE "fetch"
    /\ UNCHANGED <<HAS_CID_LIB, cliVars, checkerVars, codecVars, repairVars, argVars,
                   total_to_fix, last_uri, batchVars, processed, earlier, self, other>>

----------------------------------------------------------------------------
(* Database faults and interruption of migrate *)

\* there is no other run: no locals, and a transaction without updates
NoOther == <<<<>>, NoUpdates, "ok">>

\* no run was interrupted before this one
NoRun == <<"none", 0, 0, 0>>

\* lines 265 and 274-277: update_record raises (a statement error, or any
\* statement of a transaction that is already aborted); the statement
\* writes nothing and aborts the transaction, the except branch advances
\* last_uri, and the batch counters of lines 268-269 are not reached
UpdateRaises ==
    /\ pc = "fix"
    /\ \E result \in {fix_json_cids(records[idx][2])} :
       LET uri == records[idx][1]
       IN  /\ IsOk(result)
           /\ WritesRecord(result[2][2])
           /\ last_uri' = uri
           /\ processed' = Append(processed, uri)
    /\ txn' = "aborted"
    /\ idx' = idx + 1
    /\ pc' = IF idx = Len(records) THEN "commit" ELSE "fix"
    /\ UNCHANGED <<HAS_CID_LIB, cliVars, checkerVars, codecVars, repairVars, store, pending, indexedAt,
                   argVars, total_to_fix, totalVars, records, batch_fixed,
                   batch_cids_fixed, historyVars, overlapVars>>

\* line 280 raises (the connection is lost): nothing catches it, the finally
\* block closes the connection and migrate ends with the exception
CommitRaises ==
    /\ pc = "commit"
    /\ ~dry_run
    /\ pc' = "crashed"
    /\ pending' = NoUpdates
    /\ txn' = "ok"
    /\ UNCHANGED <<HAS_CID_LIB, cliVars, checkerVars, codecVars, repairVars, store, indexedAt, argVars,
                   total_to_fix, last_uri, totalVars, batchVars, processed,
                   historyVars, overlapVars>>

\* KeyboardInterrupt while migrate runs: it is no Exception, so line 274 does
\* not catch it; the finally block closes the connection, which drops what
\* was not committed.  One interruption per behaviour.
Interrupt ==
    /\ pc \in {"fetch", "fix", "commit"}
    /\ earlier = NoRun
    /\ earlier' = <<pc, last_uri, total_fixed, total_cids_fixed>>
    /\ pc' = "interrupted"
    /\ pending' = NoUpdates
    /\ txn' = "ok"
    /\ UNCHANGED <<HAS_CID_LIB, cliVars, checkerVars, codecVars, repairVars, store, indexedAt, argVars,
                   total_to_fix, last_uri, totalVars, batchVars, processed,
                   reported, overlapVars>>

\* the script is started again with the same arguments (main, lines 326-354):
\* a new process, whose migrate begins at line 219
Restart ==
    /\ pc = "interrupted"
    /\ pc' = "start"
    /\ total_to_fix' = 0
    /\ last_uri' = NoUri
    /\ total_processed' = 0
    /\ total_fixed' = 0
    /\ total_cids_fixed' = 0
    /\ records' = <<>>
    /\ idx' = 1
    /\ batch_fixed' = 0
    /\ batch_cids_fixed' = 0
    /\ processed' = <<>>
    /\ UNCHANGED <<HAS_CID_LIB, cliVars, checkerVars, codecVars, repairVars, dbVars, argVars, historyVars, overlapVars>>

----------------------------------------------------------------------------
(* Two runs of migrate on the same table *)

\* the locals of the run that is taking steps
Locals ==
    <<pc, total_to_fix, last_uri, total_processed, total_fixed, total_cids_fixed,
      records, idx, batch_fixed, batch_cids_fixed, processed, reported>>

\* the locals of a run at line 219
LocalsAtStart == <<"start", 0, NoUri, 0, 0, 0, <<>>, 1, 0, 0, <<>>, 0>>

\* the other process takes the next steps: each run has its own locals and
\* its own connection, and both work on the one table
Switch ==
    /\ other # NoOther
    /\ other' = <<Locals, pending, txn>>
    /\ self' = 3 - self
    /\ pc' = other[1][1]
    /\ total_to_fix' = other[1][2]
    /\ last_uri' = other[1][3]
    /\ total_processed' = other[1][4]
    /\ total_fixed' = other[1][5]
    /\ total_cids_fixed' = other[1][6]
    /\ records' = other[1][7]
    /\ idx' = other[1][8]
    /\ batch_fixed' = other[1][9]
    /\ batch_cids_fixed' = other[1][10]
    /\ processed' = other[1][11]
    /\ reported' = other[1][12]
    /\ pending' = other[2]
    /\ txn' = other[3]
    /\ UNCHANGED <<HAS_CID_LIB, cliVars, checkerVars, codecVars, repairVars, store, indexedAt, argVars,
                   earlier, writers>>

----------------------------------------------------------------------------
(* main() of fix_cid_corruption.py: the command line and the confirmation *)

\* what the operator can type at "Are you sure you want to proceed? (yes/no): "
\* (input() returns the line without its newline); EndOfInput stands for
\* input() raising EOFError on a closed stdin
EndOfInput == <<"=">>
Responses ==
    { <<"y","e","s">>, <<"Y","E","S">>, <<"Y","e","s">>, <<"n","o">>, <<"y">>, <<>>,
      EndOfInput }

\* a confirmation that takes every answer but "no" for consent
ConfirmedUnlessNo(answer) == str_lower(answer) # <<"n","o">>

\* line 350: response.lower() != 'yes' aborts
Confirmed(answer) == str_lower(answer) = <<"y","e","s">>

\* lines 326-354
Main ==
    /\ pc = "main"
    /\ pc' = IF test THEN "returned"
             ELSE IF ~dry_run /\ ~yes
                  THEN IF response = EndOfInput THEN "crashed"
                       ELSE IF Confirmed(response) THEN "start" ELSE "returned"
                  ELSE "start"
    /\ UNCHANGED <<HAS_CID_LIB, cliVars, checkerVars, codecVars, repairVars, dbVars, argVars,
                   total_to_fix, last_uri, totalVars, batchVars, processed,
                   historyVars, overlapVars>>

----------------------------------------------------------------------------
(* repo_integrity_checker.py: the records a PDS lists for a DID against the
   rows of the index for the same DID, and the Redis streams searched for
   what the index lacks.

   A string that the code splits at "/" is the sequence of its segments:
     "at://did/collection/rkey"  is  <<"at:", "", did, collection, rkey>>
     "/collection/rkey"          is  <<"", collection, rkey>>
   so that str.split("/") is the sequence itself.  An rkey is a positive
   number; NoKey is the empty string and the absent cursor (both falsy). *)

\* fetch_records_via_xrpc, lines 62-69
collections ==
    <<"app.bsky.feed.post", "app.bsky.feed.like", "app.bsky.feed.repost",
      "app.bsky.feed.threadgate", "app.bsky.graph.follow", "app.bsky.graph.block">>

\* a collection the checker does not track
Untracked == "app.bsky.actor.profile"
CollectionNames == Range(collections) \cup {Untracked}

\* verify_missing_records_in_redis, line 190
streams == <<"firehose_live", "firehose_backfill">>

\* sys.argv[1], and the DID of another repository
did == "did:plc:w4xbfzo7kqfes5zb7r6qv3rw"
OtherDid == "did:plc:other"

NoKey == 0
Rkeys == 1..MaxRkey

AtUri(d, c, k) == <<"at:", "", d, c, k>>
Last(seq) == seq[Len(seq)]

\* rec.get("uri", "").split("/")[-1]
rkey_of(rec) == Last(rec.uri)

\* "limit": 100 of the listRecords request; the model lists by smaller pages
list_limit == 1

\* com.atproto.repo.listRecords: the next list_limit records after the cursor
\* and, with them, the key of the last one as the next cursor
listRecords(c, cur) ==
    LET rest == SelectSeq(repo[c], LAMBDA rec : cur = NoKey \/ rkey_of(rec) > cur)
        page == FirstN(rest, list_limit)
    IN  [records |-> page,
         cursor  |-> IF page = <<>> THEN NoKey ELSE rkey_of(Last(page))]

\* the while loop of one collection is left (break at lines 95 and 100);
\* after the last collection the function returns and lines 304-307 add up
NextCollection(fetched) ==
    /\ cursor' = NoKey
    /\ IF coll < Len(collections)
       THEN /\ coll' = coll + 1
            /\ step' = "list"
            /\ total_pds' = total_pds
       ELSE /\ coll' = coll
            /\ step' = "query"
            /\ total_pds' =
                 SumSeq([i \in 1..Len(collections) |-> Len(fetched[collections[i]])])

\* lines 75-97: one listRecords request that is answered
ListPage ==
    /\ step = "list"
    /\ \E data \in {listRecords(collections[coll], cursor)} :
         \E fetched \in {[pds_records EXCEPT ![collections[coll]] = @ \o data.records]} :
            /\ pds_records' = fetched
            /\ list_log' = Append(list_log, <<collections[coll], cursor, "answered",
                                               data.cursor, data.records>>)
            /\ IF data.cursor = NoKey \/ data.records = <<>>
               THEN NextCollection(fetched)
               ELSE /\ cursor' = data.cursor
                    /\ UNCHANGED <<coll, step, total_pds>>
    /\ UNCHANGED <<HAS_CID_LIB, cliVars, codecVars, repairVars, migrateVars,
                   checkerArgs, servers, diffVars, scanVars>>

\* the same request with the break of line 95 taken before the records of
\* the page are added
ListLastPageDropped ==
    /\ step = "list"
    /\ \E data \in {listRecords(collections[coll], cursor)} :
         /\ data.records # <<>>
         /\ listRecords(collections[coll], data.cursor).records = <<>>
         /\ list_log' = Append(list_log, <<collections[coll], cursor, "answered",
                                            NoKey, data.records>>)
         /\ NextCollection(pds_records)
    /\ UNCHANGED <<HAS_CID_LIB, cliVars, codecVars, repairVars, migrateVars,
                   checkerArgs, servers, pds_records, diffVars, scanVars>>

\* lines 75-97: one listRecords request that the PDS answers with the last
\* records of the collection and without a cursor, as nothing follows them
ListLastPage ==
    /\ step = "list"
    /\ \E data \in {listRecords(collections[coll], cursor)} :
         /\ data.records # <<>>
         /\ listRecords(collections[coll], data.cursor).records = <<>>
         /\ \E fetched \in {[pds_records EXCEPT ![collections[coll]] = @ \o data.records]} :
               /\ pds_records' = fetched
               /\ list_log' = Append(list_log, <<collections[coll], cursor, "answered",
                                                  NoKey, data.records>>)
               /\ NextCollection(fetched)
    /\ UNCHANGED <<HAS_CID_LIB, cliVars, codecVars, repairVars, migrateVars,
                   checkerArgs, servers, diffVars, scanVars>>

\* lines 98-100: the request raises (connection error, timeout, or an error
\* status through raise_for_status, 429 included)
\* the failure ends the whole fetch, as a return in the except block would
ListPageFailsEndsFetch ==
    /\ step = "list"
    /\ list_log' = Append(list_log, <<collections[coll], cursor, "failed">>)
    /\ cursor' = NoKey
    /\ coll' = coll
    /\ step' = "query"
    /\ total_pds' = SumSeq([i \in 1..Len(collections) |-> Len(pds_records[collections[i]])])
    /\ UNCHANGED <<HAS_CID_LIB, cliVars, codecVars, repairVars, migrateVars,
                   checkerArgs, servers, pds_records, diffVars, scanVars>>

ListPageFails ==
    /\ step = "list"
    /\ list_log' = Append(list_log, <<collections[coll], cursor, "failed">>)
    /\ NextCollection(pds_records)
    /\ UNCHANGED <<HAS_CID_LIB, cliVars, codecVars, repairVars, migrateVars,
                   checkerArgs, servers, pds_records, diffVars, scanVars>>

\* a row of table record: the did column and the uri column
Row(d, c, k) == [did |-> d, uri |-> AtUri(d, c, k)]

\* the rkeys of the DID's rows whatever their collection
query_indexed_records_any_collection(d) ==
    LET uris == {row.uri : row \in {r \in record_table : r.did = d}}
    IN  [c \in CollectionNames |-> {uri[5] : uri \in {u \in uris : Len(u) >= 5}}]

\* query_indexed_records, lines 115-128
query_indexed_records(d) ==
    LET uris == {row.uri : row \in {r \in record_table : r.did = d}}
    IN  [c \in CollectionNames |->
            {uri[5] : uri \in {u \in uris : Len(u) >= 5 /\ u[4] = c}}]

\* lines 309-316
Query ==
    /\ step = "query"
    /\ indexed_records' = query_indexed_records(did)
    /\ step' = "diff"
    /\ UNCHANGED <<HAS_CID_LIB, cliVars, codecVars, repairVars, migrateVars,
                   checkerArgs, servers, fetchVars, missing, total_missing, scanVars>>

\* lines 106-112: psycopg2.connect raises, nothing catches it
QueryFails ==
    /\ step = "query"
    /\ step' = "crashed"
    /\ UNCHANGED <<HAS_CID_LIB, cliVars, codecVars, repairVars, migrateVars,
                   checkerArgs, servers, fetchVars, diffVars, scanVars>>

\* a day of the command line as creation times: date + 'T00:00:00Z' and
\* date + 'T23:59:59Z'; day d holds the times 2d-1 and 2d
StartOfDay(d) == 2 * d - 1
EndOfDay(d) == 2 * d
Days == 1..MaxDay
NoTime == 0
Times == 0..(2 * MaxDay)

\* lines 322-327
NotIndexed(recs, indexed_rkeys) ==
    SelectSeq(recs, LAMBDA rec : rkey_of(rec) # NoKey /\ rkey_of(rec) \notin indexed_rkeys)

\* lines 335-344: records without createdAt, or with one that does not
\* parse or compare, are dropped
InWindow(recs, start_dt, end_dt) ==
    SelectSeq(recs, LAMBDA rec : /\ rec.createdAt # NoTime
                                 /\ start_dt <= rec.createdAt
                                 /\ rec.createdAt <= end_dt)

\* line 351
Total(by_collection) ==
    SumSeq([i \in 1..Len(collections) |-> Len(by_collection[collections[i]])])

NotScanning ==
    /\ strm = 1
    /\ batch = 0
    /\ scan_cursor = NoKey
    /\ all_found = <<>>
    /\ not_found_count = 0
    /\ scan_log = <<>>
    /\ tool_found = <<>>

\* lines 318-361; datetime.fromisoformat(start_date + 'T00:00:00Z') needs
\* Python 3.11 to read the "Z" and raises ValueError before, which nothing
\* catches
Diff ==
    /\ step = "diff"
    /\ \E z_parses \in BOOLEAN :
         LET unfiltered == [c \in Range(collections) |->
                               NotIndexed(pds_records[c], indexed_records[c])]
             window == start_date # 0 /\ end_date # 0
             filtered == [c \in Range(collections) |->
                             InWindow(unfiltered[c], StartOfDay(start_date),
                                      EndOfDay(end_date))]
         IN  IF window /\ ~z_parses
             THEN /\ step' = "crashed"
                  /\ UNCHANGED <<missing, total_missing>>
             ELSE \E result \in {IF window THEN filtered ELSE unfiltered} :
                     /\ missing' = result
                     /\ total_missing' = Total(result)
                     /\ step' = IF Total(result) > 0 THEN "scan" ELSE "done"
    /\ UNCHANGED <<HAS_CID_LIB, cliVars, codecVars, repairVars, migrateVars,
                   checkerArgs, servers, fetchVars, indexed_records, scanVars>>

\* lines 192-193: batch_size = 10000 and max_batches = 20 ("up to 200K
\* messages per stream"); the model scans by smaller batches
scan_batch_size == 2
max_batches == 2

\* cursor = '+', the newest id
Plus == 0

\* a message of a stream: its id and the fields did and path
Message(id, d, path) == [id |-> id, did |-> d, path |-> path]
Path(c, k) == <<"", c, k>>

\* r.xrevrange(stream, max=cursor, count=batch_size): the messages with an
\* id up to max, max included, newest first
xrevrange(stream, max, count) ==
    FirstN(SelectSeq(redis_streams[stream], LAMBDA m : max = Plus \/ m.id <= max), count)

\* a consuming read: the messages handed out are deleted from the stream
stream_after_consuming(stream, messages) ==
    SelectSeq(redis_streams[stream], LAMBDA m : \A i \in 1..Len(messages) : messages[i] # m)

\* xrevrange is a range read: the stream keeps every message
stream_after_xrevrange(stream, messages) == redis_streams[stream]

\* lines 177-185
all_rkeys(by_collection) ==
    UNION {{rkey_of(by_collection[c][i]) : i \in 1..Len(by_collection[c])} :
             c \in Range(collections)} \ {NoKey}

\* the same loop recording every match, found before or not
RECURSIVE scan_messages_overwriting(_, _, _, _)
scan_messages_overwriting(found, messages, stream, keys) ==
    IF messages = <<>> THEN found
    ELSE LET m == Head(messages)
             msg_rkey == Last(m.path)
             hit == /\ m.did = did
                    /\ Len(m.path) >= 2
                    /\ msg_rkey \in keys
             next == IF hit
                     THEN [k \in DOMAIN found \cup {msg_rkey} |->
                              IF k = msg_rkey THEN <<stream, m.id>> ELSE found[k]]
                     ELSE found
         IN  scan_messages_overwriting(next, Tail(messages), stream, keys)

\* the same loop without the comparison of the did
RECURSIVE scan_messages_any_did(_, _, _, _)
scan_messages_any_did(found, messages, stream, keys) ==
    IF messages = <<>> THEN found
    ELSE LET m == Head(messages)
             msg_rkey == Last(m.path)
             hit == /\ Len(m.path) >= 2
                    /\ msg_rkey \in keys
                    /\ msg_rkey \notin DOMAIN found
             next == IF hit
                     THEN [k \in DOMAIN found \cup {msg_rkey} |->
                              IF k = msg_rkey THEN <<stream, m.id>> ELSE found[k]]
                     ELSE found
         IN  scan_messages_any_did(next, Tail(messages), stream, keys)

\* lines 210-223: the for loop over the messages of one batch
RECURSIVE scan_messages(_, _, _, _)
scan_messages(found, messages, stream, keys) ==
    IF messages = <<>> THEN found
    ELSE LET m == Head(messages)
             msg_rkey == Last(m.path)
             hit == /\ m.did = did
                    /\ Len(m.path) >= 2
                    /\ msg_rkey \in keys
                    /\ msg_rkey \notin DOMAIN found
             next == IF hit
                     THEN [k \in DOMAIN found \cup {msg_rkey} |->
                              IF k = msg_rkey THEN <<stream, m.id>> ELSE found[k]]
                     ELSE found
         IN  scan_messages(next, Tail(messages), stream, keys)

\* the for loop over the batches of one stream is left (break at lines 206
\* and 233, or range(max_batches) is used up); after the last stream the
\* function returns and line 366 computes the number not found
NextStream(found) ==
    IF strm < Len(streams)
    THEN /\ strm' = strm + 1
         /\ batch' = 0
         /\ scan_cursor' = Plus
         /\ UNCHANGED <<step, not_found_count>>
    ELSE /\ not_found_count' = total_missing - Cardinality(DOMAIN found)
         /\ step' = "done"
         /\ UNCHANGED <<strm, batch, scan_cursor>>

\* lines 202-229: one xrevrange request that is answered
ScanBatch ==
    /\ step = "scan"
    /\ \E messages \in {xrevrange(streams[strm], scan_cursor, scan_batch_size)} :
         /\ redis_streams' = [redis_streams EXCEPT
                                 ![streams[strm]] = stream_after_xrevrange(streams[strm], messages)]
         /\ scan_log' = Append(scan_log, <<streams[strm], scan_cursor, "answered",
                                           [i \in 1..Len(messages) |-> messages[i].id]>>)
         /\ IF messages = <<>>
            THEN /\ all_found' = all_found
                 /\ NextStream(all_found)
            ELSE \E found \in {scan_messages(all_found, messages, streams[strm],
                                          all_rkeys(missing))} :
                    /\ all_found' = found
                    /\ IF batch + 1 = max_batches
                       THEN NextStream(found)
                       ELSE /\ batch' = batch + 1
                            /\ scan_cursor' = Last(messages).id
                            /\ UNCHANGED <<strm, step, not_found_count>>
    /\ UNCHANGED <<HAS_CID_LIB, cliVars, codecVars, repairVars, migrateVars,
                   checkerArgs, repo, record_table, fetchVars, diffVars, tool_found>>

\* a failed request that ends the whole verification
ScanFailsEndsVerification ==
    /\ step = "scan"
    /\ all_found' = all_found
    /\ scan_log' = Append(scan_log, <<streams[strm], scan_cursor, "failed", <<>>>>)
    /\ not_found_count' = total_missing - Cardinality(DOMAIN all_found)
    /\ step' = "done"
    /\ UNCHANGED <<strm, batch, scan_cursor>>
    /\ UNCHANGED <<HAS_CID_LIB, cliVars, codecVars, repairVars, migrateVars,
                   checkerArgs, servers, fetchVars, diffVars, tool_found>>

\* lines 231-233: the request raises inside the try block
ScanFails ==
    /\ step = "scan"
    /\ all_found' = all_found
    /\ scan_log' = Append(scan_log, <<streams[strm], scan_cursor, "failed", <<>>>>)
    /\ NextStream(all_found)
    /\ UNCHANGED <<HAS_CID_LIB, cliVars, codecVars, repairVars, migrateVars,
                   checkerArgs, servers, fetchVars, diffVars, tool_found>>

\* line 196: r.xlen(stream) raises before the try block, nothing catches it
StreamLenFails ==
    /\ step = "scan"
    /\ batch = 0
    /\ step' = "crashed"
    /\ UNCHANGED <<HAS_CID_LIB, cliVars, codecVars, repairVars, migrateVars,
                   checkerArgs, servers, fetchVars, diffVars, scanVars>>

(* verify_missing_records.py: the same search as a script of its own, given
   the missing records of the checker *)

\* lines 44-57: the for loop over the messages of one chunk
RECURSIVE search_messages(_, _, _, _)
search_messages(found, messages, rkeys, d) ==
    IF messages = <<>> THEN found
    ELSE LET m == Head(messages)
             msg_rkey == Last(m.path)
             hit == /\ m.did = d
                    /\ Len(m.path) >= 2
                    /\ msg_rkey \in rkeys
             next == IF hit
                     THEN [k \in DOMAIN found \cup {msg_rkey} |->
                              IF k = msg_rkey THEN m.id ELSE found[k]]
                     ELSE found
         IN  search_messages(next, Tail(messages), rkeys, d)

\* lines 37-60: the for loop over range(chunks_to_check)
RECURSIVE search_chunks(_, _, _, _, _, _, _)
search_chunks(found, stream_name, rkeys, d, batch_sz, cur, chunks) ==
    IF chunks = 0 THEN found
    ELSE LET messages == xrevrange(stream_name, cur, batch_sz)
         IN  IF messages = <<>> THEN found
             ELSE search_chunks(search_messages(found, messages, rkeys, d), stream_name,
                                rkeys, d, batch_sz, Last(messages).id, chunks - 1)

\* lines 17-68; the 20 of line 35 is max_batches of the checker, and the
\* default batch_size of line 17 its batch_size
search_stream_for_rkeys(stream_name, rkeys, d, batch_sz) ==
    search_chunks(<<>>, stream_name, rkeys, d, batch_sz, Plus,
                  Min(max_batches, (Len(redis_streams[stream_name]) \div batch_sz) + 1))

\* lines 99-103: the for loop over the streams
RECURSIVE search_streams(_, _, _)
search_streams(found_so_far, i, rkeys) ==
    IF i > Len(streams) THEN found_so_far
    ELSE LET found == search_stream_for_rkeys(streams[i], rkeys, did, scan_batch_size)
         IN  search_streams([k \in DOMAIN found_so_far \cup DOMAIN found |->
                                IF k \in DOMAIN found_so_far THEN found_so_far[k]
                                ELSE <<streams[i], found[k]>>],
                            i + 1, rkeys)

\* lines 70-130, the first component of what it returns
verify_all_missing(missing_records) ==
    search_streams(<<>>, 1, all_rkeys(missing_records))

\* the script is run on the missing records the checker has printed
VerifyAllMissing ==
    /\ step = "done"
    /\ total_missing > 0
    /\ \E result \in {verify_all_missing(missing)} : tool_found' = result
    /\ step' = "verified"
    /\ UNCHANGED <<HAS_CID_LIB, cliVars, codecVars, repairVars, migrateVars,
                   checkerArgs, servers, fetchVars, diffVars,
                   strm, batch, scan_cursor, all_found, not_found_count, scan_log>>

----------------------------------------------------------------------------
(* Harnesses *)

\* the checker is not run
CheckerIdle ==
    /\ start_date = 0
    /\ end_date = 0
    /\ repo = [c \in Range(collections) |-> <<>>]
    /\ record_table = {}
    /\ redis_streams = [s \in Range(streams) |-> <<>>]
    /\ step = "idle"
    /\ coll = 1
    /\ cursor = NoKey
    /\ pds_records = [c \in Range(collections) |-> <<>>]
    /\ total_pds = 0
    /\ list_log = <<>>
    /\ indexed_records = [c \in CollectionNames |-> {}]
    /\ missing = [c \in Range(collections) |-> <<>>]
    /\ total_missing = 0
    /\ NotScanning

\* main() at line 300
CheckerAtStart ==
    /\ step = "list"
    /\ coll = 1
    /\ cursor = NoKey
    /\ pds_records = [c \in Range(collections) |-> <<>>]
    /\ total_pds = 0
    /\ list_log = <<>>
    /\ indexed_records = [c \in CollectionNames |-> {}]
    /\ missing = [c \in Range(collections) |-> <<>>]
    /\ total_missing = 0
    /\ NotScanning

CodecIdle ==
    /\ byte_array = <<>>
    /\ byte_array2 = <<>>
    /\ cid = NotRun
    /\ cid2 = NotRun
    /\ cid_single = NotRun
    /\ cid_v1 = NotRun

RepairIdle ==
    /\ inputJson = Compact(JInt(0))
    /\ firstRun = NotRun
    /\ secondRun = NotRun
    /\ singleRun = NotRun

RunNotStarted ==
    /\ total_to_fix = 0
    /\ last_uri = NoUri
    /\ total_processed = 0
    /\ total_fixed = 0
    /\ total_cids_fixed = 0
    /\ records = <<>>
    /\ idx = 1
    /\ batch_fixed = 0
    /\ batch_cids_fixed = 0
    /\ processed = <<>>
    /\ reported = 0
    /\ earlier = NoRun
    /\ self = 1
    /\ other = NoOther
    /\ writers = [u \in Uris |-> {}]

\* migrate() called directly, not through main()
CliIdle ==
    /\ test = FALSE
    /\ yes = TRUE
    /\ response = <<>>

MigrateIdle ==
    /\ store = NoUpdates
    /\ store0 = NoUpdates
    /\ pending = NoUpdates
    /\ txn = "ok"
    /\ indexedAt = IndexedAt0
    /\ dry_run = TRUE
    /\ limit = 0
    /\ batch_size = 1
    /\ skip_count = TRUE
    /\ pc = "idle"
    /\ RunNotStarted

InitCodec ==
    /\ HAS_CID_LIB \in BOOLEAN
    /\ CheckerIdle
    /\ CliIdle
    /\ byte_array \in CodecInputs
    /\ byte_array2 \in CodecInputs
    /\ cid = NotRun
    /\ cid2 = NotRun
    /\ cid_single = NotRun
    /\ cid_v1 = NotRun
    /\ RepairIdle
    /\ MigrateIdle

Convert ==
    /\ cid = NotRun
    /\ cid' = bytes_to_cid(byte_array)
    /\ UNCHANGED <<HAS_CID_LIB, cliVars, checkerVars, byte_array, byte_array2, cid2, cid_single, cid_v1,
                   repairVars, migrateVars>>

Convert2 ==
    /\ cid2 = NotRun
    /\ cid2' = bytes_to_cid(byte_array2)
    /\ UNCHANGED <<HAS_CID_LIB, cliVars, checkerVars, byte_array, byte_array2, cid, cid_single, cid_v1,
                   repairVars, migrateVars>>

NextCodec == Convert \/ Convert2

\* the same list handed to the codec of each of the three files
ConvertSingle ==
    /\ cid_single = NotRun
    /\ cid_single' = single_bytes_to_cid(byte_array)
    /\ UNCHANGED <<HAS_CID_LIB, cliVars, checkerVars, byte_array, byte_array2, cid, cid2, cid_v1,
                   repairVars, migrateVars>>

ConvertV1 ==
    /\ cid_v1 = NotRun
    /\ cid_v1' = bytes_to_cid_v1(byte_array)
    /\ UNCHANGED <<HAS_CID_LIB, cliVars, checkerVars, byte_array, byte_array2, cid, cid2, cid_single,
                   repairVars, migrateVars>>

InitCodecs ==
    /\ HAS_CID_LIB \in BOOLEAN
    /\ CheckerIdle
    /\ CliIdle
    /\ byte_array \in CodecInputs
    /\ byte_array2 = <<>>
    /\ cid = NotRun
    /\ cid2 = NotRun
    /\ cid_single = NotRun
    /\ cid_v1 = NotRun
    /\ RepairIdle
    /\ MigrateIdle

NextCodecs == Convert \/ ConvertSingle \/ ConvertV1

SpecCodecs == InitCodecs /\ [][NextCodecs]_vars

SpecCodec == InitCodec /\ [][NextCodec]_vars

----------------------------------------------------------------------------
(* Repair harness: fix_json_cids applied to a drawn document, then to its
   own output, and the single-record variant applied to the same document *)

InitRepair ==
    /\ HAS_CID_LIB \in BOOLEAN
    /\ CheckerIdle
    /\ CliIdle
    /\ CodecIdle
    /\ inputJson \in {Compact(d) : d \in Documents}
    /\ firstRun = NotRun
    /\ secondRun = NotRun
    /\ singleRun = NotRun
    /\ MigrateIdle

Repair ==
    /\ firstRun = NotRun
    /\ firstRun' = fix_json_cids(inputJson)
    /\ UNCHANGED <<HAS_CID_LIB, cliVars, checkerVars, codecVars, inputJson, secondRun, singleRun, migrateVars>>

RepairAgain ==
    /\ IsOk(firstRun)
    /\ secondRun = NotRun
    /\ secondRun' = fix_json_cids(firstRun[2][1])
    /\ UNCHANGED <<HAS_CID_LIB, cliVars, checkerVars, codecVars, inputJson, firstRun, singleRun, migrateVars>>

RepairSingle ==
    /\ singleRun = NotRun
    /\ singleRun' = single_fix_json_cids(inputJson)
    /\ UNCHANGED <<HAS_CID_LIB, cliVars, checkerVars, codecVars, inputJson, firstRun, secondRun, migrateVars>>

NextRepair == Repair \/ RepairAgain \/ RepairSingle

SpecRepair == InitRepair /\ [][NextRepair]_vars

----------------------------------------------------------------------------
(* The migration driver over a drawn record table *)

Init ==
    /\ HAS_CID_LIB \in BOOLEAN
    /\ CheckerIdle
    /\ CliIdle
    /\ CodecIdle
    /\ RepairIdle
    /\ store \in [Uris -> Bodies]
    /\ store0 = store
    /\ pending = NoUpdates
    /\ txn = "ok"
    /\ indexedAt = IndexedAt0
    /\ dry_run \in BOOLEAN
    /\ limit \in 0..MaxLimit
    /\ batch_size \in 1..MaxBatchSize
    /\ skip_count \in BOOLEAN
    /\ pc = "start"
    /\ RunNotStarted

Next == Counting \/ Fetching \/ Fixing \/ Committing

Spec == Init /\ [][Next]_vars

\* the migration driver with database faults and interruption
NextFaults ==
    Counting \/ Fetching \/ Fixing \/ UpdateRaises \/ Committing \/ CommitRaises
      \/ Interrupt

SpecFaults == Init /\ [][NextFaults]_vars

\* two live runs without limit that overlap in time
InitOverlap ==
    /\ HAS_CID_LIB \in BOOLEAN
    /\ CheckerIdle
    /\ CliIdle
    /\ CodecIdle
    /\ RepairIdle
    /\ store \in [Uris -> Bodies]
    /\ store0 = store
    /\ pending = NoUpdates
    /\ txn = "ok"
    /\ indexedAt = IndexedAt0
    /\ dry_run = FALSE
    /\ limit = 0
    /\ batch_size \in 1..MaxBatchSize
    /\ skip_count = FALSE
    /\ pc = "start"
    /\ total_to_fix = 0
    /\ last_uri = NoUri
    /\ total_processed = 0
    /\ total_fixed = 0
    /\ total_cids_fixed = 0
    /\ records = <<>>
    /\ idx = 1
    /\ batch_fixed = 0
    /\ batch_cids_fixed = 0
    /\ processed = <<>>
    /\ reported = 0
    /\ earlier = NoRun
    /\ self = 1
    /\ other = <<LocalsAtStart, NoUpdates, "ok">>
    /\ writers = [u \in Uris |-> {}]

NextOverlap == Counting \/ Fetching \/ Fixing \/ Committing \/ Switch

SpecOverlap == InitOverlap /\ [][NextOverlap]_vars

\* the migration driver interrupted and started again
NextResume == Counting \/ Fetching \/ Fixing \/ Committing \/ Interrupt \/ Restart

SpecResume == Init /\ [][NextResume]_vars

\* a run of the migration driver that keeps taking steps: the process is
\* scheduled until migrate() returns; a failing UPDATE is caught
NextLive == Counting \/ Fetching \/ Fixing \/ UpdateRaises \/ Committing

\* weak fairness of the steps of the while loop (Fetching, Fixing or
\* UpdateRaises, Committing): one of them is enabled exactly when pc is
\* fetch, fix or commit, and each of them changes pc or idx; written out as
\* []<>~ENABLED \/ []<>step
LoopFair ==
    \/ []<>(pc \notin {"fetch", "fix", "commit"})
    \/ []<><<pc' # pc \/ idx' # idx>>_<<pc, idx>>

SpecLive == Init /\ [][NextLive]_vars /\ WF_vars(Counting) /\ LoopFair

\* the command as the operator starts it: main() and then migrate()
InitMain ==
    /\ HAS_CID_LIB \in BOOLEAN
    /\ CheckerIdle
    /\ CodecIdle
    /\ RepairIdle
    /\ test \in BOOLEAN
    /\ yes \in BOOLEAN
    /\ response \in Responses
    /\ store \in [Uris -> Bodies]
    /\ store0 = store
    /\ pending = NoUpdates
    /\ txn = "ok"
    /\ indexedAt = IndexedAt0
    /\ dry_run \in BOOLEAN
    /\ limit = 0
    /\ batch_size \in 1..MaxBatchSize
    /\ skip_count = TRUE
    /\ pc = "main"
    /\ RunNotStarted

NextMain == Main \/ Counting \/ Fetching \/ Fixing \/ Committing

SpecMain == InitMain /\ [][NextMain]_vars

----------------------------------------------------------------------------
(* The integrity checker over drawn servers *)

\* the records a PDS lists for one collection: any set of keys, in key
\* order, each record with one of the given creation times
Listings(c, times) ==
    UNION {{[i \in 1..Len(Ascending(ks)) |->
                [uri |-> AtUri(did, c, Ascending(ks)[i]), createdAt |-> f[Ascending(ks)[i]]]]
             : f \in [ks -> times]} : ks \in SUBSET Rkeys}

\* records in the first two collections only
Repos(times) ==
    {[c \in Range(collections) |->
         IF c = collections[1] THEN p ELSE IF c = collections[2] THEN l ELSE <<>>]
       : p \in Listings(collections[1], times), l \in Listings(collections[2], times)}

\* index rows of the DID in the first two collections, with or without a row
\* of the DID in an untracked collection and a row of another DID
Tables ==
    {t \cup extra :
        t \in SUBSET {Row(did, collections[i], k) : i \in 1..2, k \in Rkeys},
        extra \in {{}, {Row(did, Untracked, 1), Row(OtherDid, collections[1], 1)}}}

\* a stream that holds, newest first: a message of another DID, one for
\* like/1, one without a path, one for post/1
SampleStream ==
    <<Message(4, OtherDid, Path(collections[1], 1)),
      Message(3, did, Path(collections[2], 1)),
      Message(2, did, <<"">>),
      Message(1, did, Path(collections[1], 1))>>
SampleStreams == [s \in Range(streams) |-> IF s = streams[1] THEN SampleStream ELSE <<>>]

NotMigrating ==
    /\ HAS_CID_LIB = FALSE
    /\ CliIdle
    /\ CodecIdle
    /\ RepairIdle
    /\ MigrateIdle

InitChecker ==
    /\ NotMigrating
    /\ start_date = 0
    /\ end_date = 0
    /\ repo \in Repos({1})
    /\ record_table \in Tables
    /\ redis_streams = SampleStreams
    /\ CheckerAtStart

NextChecker == ListPage \/ Query \/ Diff \/ ScanBatch

SpecChecker == InitChecker /\ [][NextChecker]_vars

\* the checker with listRecords requests that fail
InitFetchFaults ==
    /\ NotMigrating
    /\ start_date = 0
    /\ end_date = 0
    /\ repo \in Repos({1})
    /\ record_table \in {{}, {Row(did, collections[1], 1)}}
    /\ redis_streams = SampleStreams
    /\ CheckerAtStart

NextFetchFaults == ListPage \/ ListPageFails \/ Query \/ Diff \/ ScanBatch

SpecFetchFaults == InitFetchFaults /\ [][NextFetchFaults]_vars

\* the checker with dates on the command line: records of one collection
\* with any creation time, or none
WindowRepos ==
    {[c \in Range(collections) |-> IF c = collections[1] THEN p ELSE <<>>]
       : p \in Listings(collections[1], Times)}

InitWindow ==
    /\ NotMigrating
    /\ start_date \in 0..MaxDay
    /\ end_date \in 0..MaxDay
    /\ repo \in WindowRepos
    /\ record_table \in {{}, {Row(did, collections[1], 1)}}
    /\ redis_streams = SampleStreams
    /\ CheckerAtStart

NextWindow == ListPage \/ Query \/ Diff \/ ScanBatch

SpecWindow == InitWindow /\ [][NextWindow]_vars

\* the checker over drawn streams: nothing is indexed, and the PDS lists
\* post 1, or posts 1 and 2, or post 1 and like 1
Listing(c, ks) == [i \in 1..Len(ks) |-> [uri |-> AtUri(did, c, ks[i]), createdAt |-> 1]] \o <<>>
VerifyRepos ==
    {[c \in Range(collections) |->
         IF c = collections[1] THEN Listing(c, p)
         ELSE IF c = collections[2] THEN Listing(c, l) ELSE <<>>]
       : <<p, l>> \in {<< <<1>>, <<>> >>, << <<1, 2>>, <<>> >>, << <<1>>, <<1>> >>}}

\* what a message of a stream can be about: a record of the DID, a record
\* of another DID, or something without a path
MessageKinds ==
    {<<did, Path(collections[1], 1)>>, <<did, Path(collections[2], 1)>>,
     <<OtherDid, Path(collections[1], 1)>>, <<did, <<"">>>>}

\* the streams of up to n messages, newest first, ids descending to 1
StreamsUpTo(n) ==
    UNION {{[i \in 1..len |-> Message(len + 1 - i, f[i][1], f[i][2])] \o <<>>
              : f \in [1..len -> MessageKinds]} : len \in 0..n}

InitVerify ==
    /\ NotMigrating
    /\ start_date = 0
    /\ end_date = 0
    /\ repo \in VerifyRepos
    /\ record_table = {}
    /\ redis_streams \in {[s \in Range(streams) |-> IF s = streams[1] THEN live ELSE backfill]
                            : live \in StreamsUpTo(MaxStream), backfill \in StreamsUpTo(1)}
    /\ CheckerAtStart

NextVerify == ListPage \/ Query \/ Diff \/ ScanBatch

SpecVerify == InitVerify /\ [][NextVerify]_vars

\* the checker with every request able to fail
InitCheckerFaults ==
    /\ NotMigrating
    /\ \E d \in {0, 1} : start_date = d /\ end_date = d
    /\ repo \in Repos({1})
    /\ record_table \in {{}, {Row(did, collections[1], 1)}}
    /\ redis_streams = SampleStreams
    /\ CheckerAtStart

NextCheckerFaults ==
    ListPage \/ ListPageFails \/ Query \/ QueryFails \/ Diff \/ ScanBatch \/ ScanFails
      \/ StreamLenFails

SpecCheckerFaults == InitCheckerFaults /\ [][NextCheckerFaults]_vars

\* the fetch from a PDS that may leave out the cursor with the last records,
\* with requests that fail
NextFetch == ListPage \/ ListLastPage \/ ListPageFails \/ Query \/ Diff \/ ScanBatch

SpecFetch == InitFetchFaults /\ [][NextFetch]_vars

\* what a message can be about when matches are at stake: post 1, post 2,
\* post 1 of another DID, and a path that is the key 1 without any "/"
MatchKinds ==
    {<<did, Path(collections[1], 1)>>, <<did, Path(collections[1], 2)>>,
     <<OtherDid, Path(collections[1], 1)>>, <<did, <<1>>>>}

\* the streams of up to n messages of these kinds, newest first
MatchStreamsUpTo(n) ==
    UNION {{[i \in 1..len |-> Message(len + 1 - i, f[i][1], f[i][2])] \o <<>>
              : f \in [1..len -> MatchKinds]} : len \in 0..n}

\* both searches over drawn streams, with xrevrange requests of the checker
\* that fail; firehose_backfill is empty or holds a message for post 1 or 2
InitMatch ==
    /\ NotMigrating
    /\ start_date = 0
    /\ end_date = 0
    /\ repo \in VerifyRepos
    /\ record_table = {}
    /\ redis_streams \in {[s \in Range(streams) |-> IF s = streams[1] THEN live ELSE backfill]
                            : live \in MatchStreamsUpTo(MaxStream),
                              backfill \in {<<>>} \cup
                                  {<<Message(1, did, Path(collections[1], k))>> : k \in 1..2}}
    /\ CheckerAtStart

NextMatch == ListPage \/ Query \/ Diff \/ ScanBatch \/ ScanFails \/ VerifyAllMissing

SpecMatch == InitMatch /\ [][NextMatch]_vars

\* the search of streams of every length up to MaxStream, with xrevrange
\* requests that fail; the messages are about posts 1 and 2 in turn
StreamOfLength(n) ==
    [i \in 1..n |-> Message(n + 1 - i, did, Path(collections[1], 1 + (i % 2)))] \o <<>>

InitScan ==
    /\ NotMigrating
    /\ start_date = 0
    /\ end_date = 0
    /\ repo \in VerifyRepos
    /\ record_table = {}
    /\ redis_streams \in {[s \in Range(streams) |->
                              IF s = streams[1] THEN StreamOfLength(n) ELSE StreamOfLength(m)]
                            : n \in 0..MaxStream, m \in 0..MaxStream}
    /\ CheckerAtStart

NextScan == ListPage \/ Query \/ Diff \/ ScanBatch \/ ScanFails

\* main() runs its steps one after the other, nothing suspends it
SpecScan == InitScan /\ [][NextScan]_vars /\ WF_vars(NextScan)

----------------------------------------------------------------------------
(* Claims about the identifier codec (SpecCodec) *)

\* a valid 36-byte identifier: the header 1, 0x55, 0x12, 32 and 32 digest bytes
IsValidIdentifier(l) ==
    /\ Len(l) = CID_LEN
    /\ BytesOk(l)
    /\ SubSeq(Bytes(l), 1, 4) = Header

\* the length and the four header bytes a valid identifier must have
OnProfile(l) ==
    /\ Len(l) = CID_LEN
    /\ PyEqInt(l[1], 1) /\ PyEqInt(l[2], 85) /\ PyEqInt(l[3], 18) /\ PyEqInt(l[4], 32)

\* C1: whenever the length is not 36, or the version is not 1, or the codec is
\* not 0x55, or the hash function is not 0x12, or the digest length is not 32,
\* bytes_to_cid fails and yields no string.
C1_OffProfileRejected ==
    /\ (cid # NotRun /\ ~OnProfile(byte_array)) => IsRaised(cid)
    /\ (cid2 # NotRun /\ ~OnProfile(byte_array2)) => IsRaised(cid2)

RoundTrips(l, r) ==
    (IsValidIdentifier(l) /\ r # NotRun) =>
        /\ IsOk(r)
        /\ ReverseBase32(r[2]) = Bytes(l)
        /\ bytes_to_cid(Ints(ReverseBase32(r[2]))) = r

LowerB32Alphabet == LowerLetters \o <<"2","3","4","5","6","7">>

WellFormed(l, r) ==
    (IsValidIdentifier(l) /\ r # NotRun) =>
        /\ IsOk(r)
        /\ Len(r[2]) = 59
        /\ r[2][1] = "b"
        /\ \A k \in 2..59 : r[2][k] = LowerB32Alphabet[Quintet(Bytes(l), k - 2) + 1]
        /\ \A k \in 1..59 : r[2][k] # "=" /\ r[2][k] \notin Range(UpperLetters)
        /\ (Bytes(l) = ValidBytes(TestDigest) => r[2] = TestCid)

----------------------------------------------------------------------------
(* Claims about the document repair (SpecRepair) *)

InDoc == json_loads(inputJson)
Out1 == json_loads(firstRun[2][1])
N1 == firstRun[2][2]
Out2 == json_loads(secondRun[2][1])
N2 == secondRun[2][2]
OutS == json_loads(singleRun[2][1])
NS == singleRun[2][2]

\* an entry "ref" of a mapping whose value is a sequence
IsRefList(e) == e[1] = "ref" /\ Tag(e[2]) = "list"
RefLen(e) == Len(Val(e[2]))
\* ... of exactly 36 integers
Is36Ints(e) ==
    /\ IsRefList(e)
    /\ RefLen(e) = 36
    /\ \A i \in 1..36 : Tag(Val(e[2])[i]) = "int"
CodecAccepts(e) == IsOk(bytes_to_cid(Val(e[2])))
IsScalar(x) == Tag(x) \notin {"dict", "list"}
IsLink(x) ==
    /\ Tag(x) = "dict"
    /\ Len(Val(x)) = 1
    /\ Val(x)[1][1] = "$link"
    /\ Tag(Val(x)[1][2]) = "str"

\* the output has a mapping where the input has one, a sequence of the same
\* length where the input has one, and at every depth each accepted 36-integer
\* "ref" has become the link to the canonical string of its bytes
RECURSIVE AcceptedRefsReplaced(_, _)
AcceptedRefsReplaced(in, out) ==
    IF Tag(in) = "dict"
    THEN /\ Tag(out) = "dict"
         /\ Len(Val(out)) = Len(Val(in))
         /\ \A i \in 1..Len(Val(in)) :
              LET e == Val(in)[i]
                  f == Val(out)[i]
              IN  IF Is36Ints(e) /\ CodecAccepts(e)
                  THEN f = <<"ref", Link(CidString(Bytes(Val(e[2]))))>>
                  ELSE IF IsRefList(e) /\ Tag(f[2]) # "list" THEN TRUE
                  ELSE AcceptedRefsReplaced(e[2], f[2])
    ELSE IF Tag(in) = "list"
    THEN /\ Tag(out) = "list"
         /\ Len(Val(out)) = Len(Val(in))
         /\ \A i \in 1..Len(Val(in)) : AcceptedRefsReplaced(Val(in)[i], Val(out)[i])
    ELSE TRUE

\* the number of "ref" entries that hold a sequence in the input and a
\* mapping in the output (only the entries with Len36, when it is TRUE)
RECURSIVE CountReplaced(_, _, _)
CountReplaced(in, out, Len36) ==
    IF Tag(in) = "dict" /\ Tag(out) = "dict"
    THEN SumSeq([i \in 1..Len(Val(in)) |->
            LET e == Val(in)[i]
                f == Val(out)[i]
            IN  IF IsRefList(e) /\ Tag(f[2]) = "dict"
                THEN (IF Len36 /\ RefLen(e) # 36 THEN 0 ELSE 1)
                ELSE CountReplaced(e[2], f[2], Len36)])
    ELSE IF Tag(in) = "list" /\ Tag(out) = "list"
    THEN SumSeq([i \in 1..Len(Val(in)) |->
            CountReplaced(Val(in)[i], Val(out)[i], Len36)])
    ELSE 0

RECURSIVE CountAccepted(_)
CountAccepted(in) ==
    IF Tag(in) = "dict"
    THEN SumSeq([i \in 1..Len(Val(in)) |->
            LET e == Val(in)[i]
            IN  IF IsRefList(e) /\ CodecAccepts(e) THEN 1 ELSE CountAccepted(e[2])])
    ELSE IF Tag(in) = "list"
    THEN SumSeq([i \in 1..Len(Val(in)) |-> CountAccepted(Val(in)[i])])
    ELSE 0

\* the "ref" sequences the codec rejects
RECURSIVE CountRejected(_)
CountRejected(in) ==
    IF Tag(in) = "dict"
    THEN SumSeq([i \in 1..Len(Val(in)) |->
            LET e == Val(in)[i]
            IN  IF IsRefList(e) /\ CodecAccepts(e) THEN 0
                ELSE (IF IsRefList(e) THEN 1 ELSE 0) + CountRejected(e[2])])
    ELSE IF Tag(in) = "list"
    THEN SumSeq([i \in 1..Len(Val(in)) |-> CountRejected(Val(in)[i])])
    ELSE 0

\* every rejected "ref" is still a "ref" holding a sequence of the same
\* length, equal to the input's when it holds only scalars
RECURSIVE RejectedRefsKept(_, _)
RejectedRefsKept(in, out) ==
    IF Tag(in) = "dict"
    THEN \A i \in 1..Len(Val(in)) :
            LET e == Val(in)[i]
                f == Val(out)[i]
            IN  IF IsRefList(e) /\ CodecAccepts(e) THEN TRUE
                ELSE IF IsRefList(e)
                THEN /\ f[1] = "ref"
                     /\ Tag(f[2]) = "list"
                     /\ Len(Val(f[2])) = RefLen(e)
                     /\ (\A k \in 1..RefLen(e) : IsScalar(Val(e[2])[k])) => f = e
                     /\ RejectedRefsKept(e[2], f[2])
                ELSE RejectedRefsKept(e[2], f[2])
    ELSE IF Tag(in) = "list"
    THEN \A i \in 1..Len(Val(in)) : RejectedRefsKept(Val(in)[i], Val(out)[i])
    ELSE TRUE

\* C5: a "ref" the codec rejects stays as it is and is not counted, the call
\* does not raise, and every other node (sibling, child, node inside the
\* rejected value) is still visited and repaired.
C5_RejectedRefIsolated ==
    (firstRun # NotRun /\ CountRejected(InDoc) > 0) =>
        /\ IsOk(firstRun)
        /\ AcceptedRefsReplaced(InDoc, Out1)
        /\ RejectedRefsKept(InDoc, Out1)
        /\ N1 = CountAccepted(InDoc)

\* a rejected "ref" whose value holds a reference that was repaired
C5_Witness ==
    /\ IsOk(firstRun)
    /\ Tag(InDoc) = "dict" /\ Len(Val(InDoc)) = 1
    /\ IsRefList(Val(InDoc)[1]) /\ ~CodecAccepts(Val(InDoc)[1])
    /\ N1 = 1
    /\ Tag(Val(Out1)[1][2]) = "list"

\* same shape, keys, order, lengths and scalars, except where a "ref"
\* sequence has become a link
RECURSIVE SameExceptRefs(_, _)
SameExceptRefs(in, out) ==
    IF Tag(in) = "dict"
    THEN /\ Tag(out) = "dict"
         /\ Len(Val(out)) = Len(Val(in))
         /\ \A i \in 1..Len(Val(in)) :
              LET e == Val(in)[i]
                  f == Val(out)[i]
              IN  /\ f[1] = e[1]
                  /\ IF IsRefList(e) /\ Tag(f[2]) # "list" THEN IsLink(f[2])
                     ELSE SameExceptRefs(e[2], f[2])
    ELSE IF Tag(in) = "list"
    THEN /\ Tag(out) = "list"
         /\ Len(Val(out)) = Len(Val(in))
         /\ \A i \in 1..Len(Val(in)) : SameExceptRefs(Val(in)[i], Val(out)[i])
    ELSE out = in

\* C6: the repaired document equals the input in shape, keys, key order,
\* sequence lengths and scalars everywhere except at converted "ref" entries;
\* with no convertible reference it is the input itself, with fix count 0.
C6_StructurePreserved ==
    firstRun # NotRun =>
        /\ IsOk(firstRun)
        /\ SameExceptRefs(InDoc, Out1)
        /\ CountAccepted(InDoc) = 0 => (Out1 = InDoc /\ N1 = 0)

\* a reference converted beside a sequence under another key, which is kept
C6_Witness ==
    /\ IsOk(firstRun)
    /\ N1 = 1
    /\ Tag(InDoc) = "dict" /\ Len(Val(InDoc)) = 2
    /\ Val(InDoc)[1][1] = "a" /\ Tag(Val(InDoc)[1][2]) = "list"
    /\ Len(Val(Val(InDoc)[1][2])) = 36
    /\ Val(Out1)[1] = Val(InDoc)[1]

\* C7: repairing the output of a repair makes no fix and returns the same
\* document, also when the document holds references the codec rejects.
C7_Idempotent ==
    /\ (IsOk(firstRun) /\ secondRun # NotRun) =>
          /\ IsOk(secondRun)
          /\ N2 = 0
          /\ Out2 = Out1
          /\ secondRun[2][1] = firstRun[2][1]

C7_Witness ==
    /\ IsOk(secondRun)
    /\ N1 > 0
    /\ CountRejected(InDoc) > 0

\* every "ref" sequence of a length other than 36 is still a sequence
RECURSIVE OtherLengthsKept(_, _)
OtherLengthsKept(in, out) ==
    IF Tag(in) = "dict"
    THEN \A i \in 1..Len(Val(in)) :
            LET e == Val(in)[i]
                f == Val(out)[i]
            IN  IF IsRefList(e) /\ RefLen(e) # 36
                THEN f[1] = "ref" /\ Tag(f[2]) = "list" /\ OtherLengthsKept(e[2], f[2])
                ELSE IF IsRefList(e) /\ Tag(f[2]) # "list" THEN TRUE
                ELSE OtherLengthsKept(e[2], f[2])
    ELSE IF Tag(in) = "list"
    THEN \A i \in 1..Len(Val(in)) : OtherLengthsKept(Val(in)[i], Val(out)[i])
    ELSE TRUE

\* C8: a "ref" holding a sequence of a length other than 36 is never
\* converted and never counted, by fix_json_cids of the migration script and
\* by the single-record variant.
C8_OnlyLength36Converted ==
    /\ IsOk(firstRun) =>
          OtherLengthsKept(InDoc, Out1) /\ N1 = CountReplaced(InDoc, Out1, TRUE)
    /\ IsOk(singleRun) =>
          OtherLengthsKept(InDoc, OutS) /\ NS = CountReplaced(InDoc, OutS, TRUE)

----------------------------------------------------------------------------
(* Claims about the migration driver (Spec) *)

\* the text parses and holds, at some depth, a "ref" with 36 integers that
\* the codec accepts
RECURSIVE HasConvertibleRef(_)
HasConvertibleRef(x) ==
    IF Tag(x) = "dict"
    THEN \E i \in 1..Len(Val(x)) :
            \/ Is36Ints(Val(x)[i]) /\ CodecAccepts(Val(x)[i])
            \/ HasConvertibleRef(Val(x)[i][2])
    ELSE IF Tag(x) = "list"
    THEN \E i \in 1..Len(Val(x)) : HasConvertibleRef(Val(x)[i])
    ELSE FALSE
StillCorrupted(json_text) ==
    json_loads_ok(json_text) /\ HasConvertibleRef(json_loads(json_text))

\* C9: once a live run without limit is done, no record of the table holds
\* a "ref" of 36 integers that the codec accepts.
C9_MigrationComplete ==
    (pc = "done" /\ ~dry_run /\ limit = 0) =>
        \A u \in Uris : ~StillCorrupted(store[u])

\* C10: in a dry run the table and the transaction are never written: every
\* record keeps the body it had when the run started.
C10_DryRunWritesNothing ==
    dry_run => (store = store0 /\ pending = NoUpdates)

\* a finished dry run that met a record it would fix and one that failed
C10_Witness ==
    /\ dry_run
    /\ pc = "done"
    /\ total_fixed > 0
    /\ \E u \in Uris : store0[u][1] = "truncated" /\ u <= last_uri

----------------------------------------------------------------------------
(* Claims about the migration driver without faults (Spec) *)

\* the uris of the page being processed
PageUris == {records[i][1] : i \in 1..Len(records)}

\* the body a record must have once its page is committed in live mode
BodyAfterCommit(json_text) ==
    LET result == fix_json_cids(json_text)
    IN  IF IsOk(result) /\ result[2][2] > 0 THEN result[2][1] ELSE json_text

\* the fix count of a body, 0 when the repair raises
FixCount(json_text) ==
    LET result == fix_json_cids(json_text)
    IN  IF IsOk(result) THEN result[2][2] ELSE 0

\* C11: when a batch commits in live mode, a record of the page has been
\* rewritten if and only if its fix count is greater than 0, its new body is
\* the repaired document, and records with fix count 0 (and records outside
\* the page) are not written.
C11_WrittenIffFixed ==
    [][(pc = "commit" /\ ~dry_run) =>
          /\ \A i \in 1..Len(records) :
                LET uri == records[i][1]
                IN  /\ store'[uri] = BodyAfterCommit(records[i][2])
                    /\ (store'[uri] # store[uri]) <=> (FixCount(records[i][2]) > 0)
                    /\ (pending[uri] # NoBody) <=> (FixCount(records[i][2]) > 0)
          /\ \A u \in Uris \ PageUris : store'[u] = store[u]]_vars

\* a committed live page of two records, one rewritten and one left alone
C11_Witness ==
    /\ ~dry_run
    /\ pc = "fetch"
    /\ Len(records) = 2
    /\ batch_fixed = 1
    /\ \E u \in PageUris : store[u] # store0[u]
    /\ \E u \in PageUris : store[u] = store0[u]

\* the repair of this body raises: the text is not valid JSON
RepairRaises(json_text) == ~json_loads_ok(json_text)

\* positions of the page the for loop has handled
Handled == 1..(idx - 1)

NoDuplicates(q) == \A i, j \in 1..Len(q) : i # j => q[i] # q[j]

\* C12: a record whose repair raises is not written, the loop goes on to the
\* records after it in the page, which are repaired and committed, and
\* last_uri has advanced past it, so that the run does not fetch it again.
C12_FailingRecordSkipped ==
    /\ \A u \in Uris : RepairRaises(store0[u]) =>
            store[u] = store0[u] /\ pending[u] = NoBody
    /\ pc \in {"fix", "commit"} =>
          \A i \in Handled : RepairRaises(records[i][2]) =>
              /\ last_uri >= records[i][1]
              /\ \A j \in Handled : (j > i /\ ~dry_run) =>
                    Visible(store, pending, records[j][1]) = BodyAfterCommit(records[j][2])
    /\ pc = "commit" => idx = Len(records) + 1
    /\ (pc = "fetch" /\ ~dry_run) =>
          \A i, j \in 1..Len(records) : (RepairRaises(records[i][2]) /\ j > i) =>
              store[records[j][1]] = BodyAfterCommit(records[j][2])
    /\ NoDuplicates(processed)

\* a live page whose first record failed to parse and whose second record
\* was repaired and committed
C12_Witness ==
    /\ ~dry_run
    /\ pc = "fetch"
    /\ Len(records) = 2
    /\ RepairRaises(records[1][2])
    /\ store[records[2][1]] # store0[records[2][1]]
    /\ last_uri = records[2][1]

\* the candidate records of the table the run started with
Candidates0 == {u \in Uris : Like(store0[u])}

StrictlyAscending(q) == \A i, j \in 1..Len(q) : i < j => q[i] < q[j]

\* C14: every page holds at most batch_size candidate records in ascending
\* uri order, all greater than the last_uri it was fetched with and with no
\* candidate left out between them; last_uri is the last record handled and
\* the records handled are strictly ascending (none twice); without a limit
\* the run has handled every candidate exactly once when it is done.
C14_Pagination ==
    /\ Len(records) <= batch_size
    /\ StrictlyAscending([i \in 1..Len(records) |-> records[i][1]])
    /\ \A i \in 1..Len(records) : records[i][1] \in Candidates0
    /\ (pc = "fix" /\ idx = 1) =>
          /\ \A i \in 1..Len(records) : records[i][1] > last_uri
          /\ \A u \in Candidates0 :
                (u > last_uri /\ u < records[Len(records)][1]) => u \in PageUris
    /\ StrictlyAscending(processed)
    /\ last_uri = IF processed = <<>> THEN NoUri ELSE processed[Len(processed)]
    /\ (pc = "done" /\ limit = 0) => processed = Ascending(Candidates0)

\* a run without limit that went through two pages
C14_Witness ==
    /\ pc = "done"
    /\ limit = 0
    /\ batch_size = 1
    /\ Len(processed) = 2
    /\ total_processed = 2

\* the records whose committed body differs from the one they started with
Rewritten == {u \in Uris : store[u] # store0[u]}

\* C16: the driver goes to done without another fetch as soon as the page
\* just processed had fewer than batch_size records, or the limit has been
\* reached, or the fetched page is empty.
C16_LeavesLoop ==
    /\ [][pc = "commit" =>
            ((\/ Len(records) < batch_size
              \/ (limit # 0 /\ total_processed' >= limit)) => pc' = "done")]_vars
    /\ [][(pc = "fetch" /\ records' = <<>>) => pc' = "done"]_vars

\* C17: with a limit, the number of records the run handles, and so the
\* number it counts as fixed and writes, never exceeds the limit.
C17_LimitRespected ==
    limit # 0 =>
        /\ Len(processed) <= limit
        /\ total_processed <= limit
        /\ total_fixed <= limit
        /\ Cardinality(Rewritten) <= limit

\* C20: across a run the table keeps its set of uris (no record is inserted
\* or deleted) and every record keeps its indexedAt timestamp: only the json
\* body of a record changes.
C20_KeysAndTimestampsKept ==
    /\ DOMAIN store = DOMAIN store0
    /\ DOMAIN indexedAt = DOMAIN store0
    /\ indexedAt = IndexedAt0

\* a finished live run that rewrote a record
C20_Witness ==
    /\ ~dry_run
    /\ pc = "done"
    /\ Rewritten # {}
    /\ total_fixed > 0

----------------------------------------------------------------------------
(* Claims about database faults and interruption (SpecFaults) *)

\* C13: when persisting a record fails in live mode, the batch is aborted
\* (the loop does not go on to the next record or to the commit) and last_uri
\* is not advanced to the failing record.
C13_FailureHoldsCursor ==
    [][UpdateRaises =>
          /\ last_uri' # records[idx][1]
          /\ pc' \notin {"fix", "commit"}]_vars

\* C18: the updates of a batch become durable together or not at all, and
\* records whose update did not become durable are neither announced as
\* committed nor counted in total_fixed.
C18_BatchAtomic ==
    /\ [][store' # store =>
            \A u \in Uris : pending[u] # NoBody => store'[u] = pending[u]]_vars
    /\ [](~dry_run => /\ total_fixed <= Cardinality(Rewritten)
                      /\ reported <= Cardinality(Rewritten))

----------------------------------------------------------------------------
(* Claims about interruption and restart (SpecResume) *)

\* what a run without limit and without interruption fixes in the table
\* the first run started with
UninterruptedFixed == Cardinality({u \in Candidates0 : FixCount(store0[u]) > 0})
UninterruptedCidsFixed ==
    LET order == Ascending(Candidates0)
    IN  SumSeq([i \in 1..Len(order) |-> FixCount(store0[order[i]])])

\* C15: a run interrupted between two batches and started again handles
\* exactly the candidates above the last_uri the interrupted run had
\* reached, and the totals of the two parts add up to those of a run that
\* was not interrupted.
C15_Resumable ==
    (pc = "done" /\ earlier # NoRun /\ earlier[1] = "fetch" /\ limit = 0) =>
        /\ processed = Ascending({u \in Candidates0 : u > earlier[2]})
        /\ earlier[3] + total_fixed = UninterruptedFixed
        /\ earlier[4] + total_cids_fixed = UninterruptedCidsFixed

----------------------------------------------------------------------------
(* Claims about two overlapping runs (SpecOverlap) *)

\* C19: when two live runs overlap on the same table, no record is written
\* and committed by both.
C19_NoRecordCommittedTwice ==
    \A u \in Uris : Cardinality(writers[u]) <= 1

----------------------------------------------------------------------------
(* Claims about the command line (SpecMain) *)

\* the operator typed the word yes, in whatever letter case
AnsweredYes ==
    /\ Len(response) = 3
    /\ response[1] \in {"y", "Y"}
    /\ response[2] \in {"e", "E"}
    /\ response[3] \in {"s", "S"}

Consent == ~dry_run /\ (yes \/ AnsweredYes)

\* C21: the command writes to the record table only if it was started
\* without --dry-run and either --yes was given or the operator answered
\* yes at the prompt; after any other answer to the prompt the command ends
\* and migrate() is never started.
C21_ConfirmationGatesLiveMode ==
    /\ (store # store0 \/ pending # NoUpdates) => Consent
    /\ (~dry_run /\ ~yes /\ ~AnsweredYes) => pc \in {"main", "returned", "crashed"}

C21_Witness ==
    /\ ~dry_run /\ ~yes /\ ~test
    /\ response = <<"Y","E","S">>
    /\ store # store0

----------------------------------------------------------------------------
(* Claims about the reconciliation diff (SpecChecker) *)

\* the index holds the record of collection c with key k
IndexHolds(c, k) ==
    \E row \in record_table : row.did = did /\ row.uri = AtUri(did, c, k)

\* the records of the PDS that the index lacks
Lacking(c) == {rec \in Range(repo[c]) : ~IndexHolds(c, rkey_of(rec))}

Diffed == step \in {"scan", "done"}

\* C22: without a time window the missing set of every collection is
\* exactly the authoritative records whose key the index does not hold for
\* that collection: nothing when the PDS lists nothing, everything when
\* the index is empty or holds other keys only.
C22_MissingIsDifference ==
    (Diffed /\ ~(start_date # 0 /\ end_date # 0)) =>
        /\ \A c \in Range(collections) :
              /\ Range(missing[c]) = Lacking(c)
              /\ Len(missing[c]) = Cardinality(Lacking(c))
              /\ repo[c] = <<>> => missing[c] = <<>>
              /\ (\A k \in Rkeys : ~IndexHolds(c, k)) => missing[c] = repo[c]
        /\ total_missing = Cardinality(UNION {Lacking(c) : c \in Range(collections)})

C22_Witness ==
    /\ step = "done"
    /\ Len(repo[collections[1]]) = MaxRkey
    /\ Len(missing[collections[1]]) = 1
    /\ IndexHolds(collections[2], rkey_of(missing[collections[1]][1]))
    /\ repo[collections[2]] # <<>>
    /\ missing[collections[2]] = repo[collections[2]]

----------------------------------------------------------------------------
(* Claims about the time window (SpecWindow) *)

WindowGiven == start_date # 0 /\ end_date # 0

\* the record was created within [start, end], bounds included
Within(rec) ==
    /\ rec.createdAt # NoTime
    /\ StartOfDay(start_date) <= rec.createdAt
    /\ rec.createdAt <= EndOfDay(end_date)

\* C23: with a time window, the authoritative set and its reported total,
\* and the missing set, hold only records created within the window, and
\* every authoritative record within the window that the index lacks is in
\* the missing set.
C23_WindowNarrowsBoth ==
    (Diffed /\ WindowGiven) =>
        \A c \in Range(collections) :
            /\ \A rec \in Range(pds_records[c]) : Within(rec)
            /\ \A rec \in Range(missing[c]) : Within(rec)
            /\ \A rec \in Lacking(c) : Within(rec) => rec \in Range(missing[c])
            /\ total_pds = Cardinality(UNION {{rec \in Range(repo[d]) : Within(rec)}
                                                : d \in Range(collections)})

----------------------------------------------------------------------------
(* Claims about failing listRecords requests (SpecFetchFaults) *)

\* the requests for collection c that were answered, and whether one failed
Answered(c) == Len(SelectSeq(list_log, LAMBDA e : e[1] = c /\ e[3] = "answered"))
FetchFailed(c) == \E i \in 1..Len(list_log) : list_log[i][1] = c /\ list_log[i][3] = "failed"

FetchOver == step \notin {"idle", "list"}

\* C24: a listRecords request that fails stops the fetch of its collection
\* only: what the answered pages of the collection brought is kept, every
\* other collection is fetched in full, and the run goes on to the index
\* query and the diff.
C24_FailureStopsOneCollection ==
    /\ \A c \in Range(collections) :
          pds_records[c] = FirstN(repo[c], Answered(c) * list_limit)
    /\ FetchOver =>
          \A c \in Range(collections) :
              /\ \E i \in 1..Len(list_log) : list_log[i][1] = c
              /\ ~FetchFailed(c) => pds_records[c] = repo[c]
    /\ step # "crashed"
    /\ Diffed =>
          \A c \in Range(collections) :
              Range(missing[c]) = {rec \in Range(pds_records[c]) : ~IndexHolds(c, rkey_of(rec))}

C24_Witness ==
    /\ step = "done"
    /\ FetchFailed(collections[1])
    /\ Answered(collections[1]) = 1
    /\ Len(repo[collections[1]]) = MaxRkey
    /\ ~FetchFailed(collections[2])
    /\ missing[collections[2]] # <<>>
    /\ missing[collections[1]] # <<>>

\* C25: a listRecords request that fails (rate limit, transient error) is
\* made again, the same collection with the same cursor: the fetch of the
\* collection is not given up.
C25_FailedRequestRetried ==
    \A i \in 1..Len(list_log) :
        list_log[i][3] = "failed" =>
            IF i < Len(list_log)
            THEN /\ list_log[i + 1][1] = list_log[i][1]
                 /\ list_log[i + 1][2] = list_log[i][2]
            ELSE /\ step = "list"
                 /\ collections[coll] = list_log[i][1]
                 /\ cursor = list_log[i][2]

----------------------------------------------------------------------------
(* Claims about the search of the Redis streams (SpecVerify) *)

SearchSet == all_rkeys(missing)
AllLocated == step = "scan" /\ DOMAIN all_found = SearchSet

\* C26: a key that was matched is not searched for again, and once every
\* missing key is located no further xrevrange request is made, neither
\* for the stream being scanned nor for a later stream.
C26_StopsWhenAllLocated ==
    /\ [][\A k \in DOMAIN all_found :
             k \in DOMAIN all_found' /\ all_found'[k] = all_found[k]]_vars
    /\ [][AllLocated => ~ScanBatch]_vars

\* the message is about the record with key k of the DID
MatchesKey(m, k) == m.did = did /\ Len(m.path) >= 2 /\ Last(m.path) = k

\* the newest batch_size * max_batches messages of stream s
Budget == scan_batch_size * max_batches
WithinBudget(s) == FirstN(redis_streams[s], Budget)

\* C27: every message among the newest batch_size * max_batches of each
\* stream is examined: a missing key with a matching message within that
\* range is reported as found, and a key is reported as not found exactly
\* when no stream has a match within it.
C27_BudgetExamined ==
    step = "done" =>
        \A k \in SearchSet :
            k \in DOMAIN all_found <=>
                \E s \in Range(streams) :
                    \E i \in 1..Len(WithinBudget(s)) : MatchesKey(WithinBudget(s)[i], k)

\* the missing records, and those of them no message was found for
MissingRecords == UNION {Range(missing[c]) : c \in Range(collections)}
Unconfirmed == {rec \in MissingRecords : rkey_of(rec) \notin DOMAIN all_found}

\* C28: after the search the keys found and the keys not found partition
\* the keys of the missing records, and the number of records reported as
\* possibly lost is the number of missing records no message was found
\* for, also when two collections miss records with the same key.
C28_LostCountIsUnconfirmed ==
    step = "done" =>
        /\ DOMAIN all_found \subseteq SearchSet
        /\ SearchSet = {rkey_of(rec) : rec \in MissingRecords}
        /\ not_found_count = Cardinality(Unconfirmed)

----------------------------------------------------------------------------
(* Claims about what the checker changes (SpecCheckerFaults) *)

\* C29: the checker only reads: in every step of every run, whatever the
\* inputs and whichever requests fail, the Redis streams, the index table
\* and the PDS keep exactly their contents.
C29_ReadOnly ==
    [][/\ redis_streams' = redis_streams
       /\ record_table' = record_table
       /\ repo' = repo]_vars

C29_Witness ==
    /\ step = "done"
    /\ DOMAIN all_found # {}
    /\ record_table # {}
    /\ \E c \in Range(collections) : FetchFailed(c)
    /\ strm = Len(streams)

----------------------------------------------------------------------------
(* Claims about termination of the migration driver (SpecLive) *)

\* C30: for every table, batch size, mode and limit, a run of migrate()
\* reaches the end of the loop ("COMPLETE!"): no fetch loop goes on for
\* ever, also when the repair or the update of records raises and in
\* dry-run mode, where the candidates stay candidates.
C30_Terminates == <>(pc = "done")

C30_Witness ==
    /\ pc = "done"
    /\ dry_run
    /\ limit = 0
    /\ Len(processed) = MaxUri
    /\ \E u \in Uris : RepairRaises(store[u])
    /\ \E u \in Uris : FixCount(store[u]) > 0

----------------------------------------------------------------------------
(* Claims about the bounded scan of the Redis streams (SpecScan) *)

\* the xrevrange requests made for one stream, in order
RequestsOf(s) == SelectSeq(scan_log, LAMBDA e : e[1] = s)

\* what was asked for and handed out, request by request
BoundedReverseScan(s) ==
    LET q == RequestsOf(s)
    IN  /\ Len(q) <= max_batches
        /\ \A i \in 1..Len(q) :
              /\ Len(q[i][4]) <= scan_batch_size
              /\ q[i][2] = (IF i = 1 THEN Plus ELSE Last(q[i - 1][4]))
              /\ \A j \in 1..Len(q[i][4]) :
                    /\ q[i][2] # Plus => q[i][4][j] <= q[i][2]
                    /\ j > 1 => q[i][4][j] < q[i][4][j - 1]
              /\ i < Len(q) => q[i][3] = "answered" /\ q[i][4] # <<>>

\* every stream has been searched from its newest message
EveryStreamSearched ==
    \A s \in Range(streams) : RequestsOf(s) # <<>> /\ RequestsOf(s)[1][2] = Plus

\* C31: for each stream at most max_batches xrevrange requests are made, each
\* answered by at most batch_size messages, the first from "+" and every
\* later one from the oldest id of the batch before it, ids descending; a
\* request that fails or returns nothing is the last one of its stream and
\* the other stream is still searched; the verification comes to its end
\* whatever the length of the streams.
C31_BoundedScanTerminates ==
    /\ [](\A s \in Range(streams) : BoundedReverseScan(s))
    /\ [](step = "done" /\ total_missing > 0 => EveryStreamSearched)
    /\ <>(step = "done")

\* a stream longer than the budget was searched by max_batches requests, the
\* last of which failed, and the other stream was searched after it
C31_Witness ==
    /\ step = "done"
    /\ Len(redis_streams[streams[1]]) > max_batches * scan_batch_size - (max_batches - 1)
    /\ Len(RequestsOf(streams[1])) = max_batches
    /\ Last(RequestsOf(streams[1]))[3] = "failed"
    /\ \E i \in 1..Len(RequestsOf(streams[2])) :
          RequestsOf(streams[2])[i][3] = "answered" /\ RequestsOf(streams[2])[i][4] # <<>>

----------------------------------------------------------------------------
(* Claims about the matches of both searches (SpecMatch) *)

\* the message of stream s with this id is about key k of the DID
NamesEntryFor(s, id, k) ==
    /\ s \in Range(streams)
    /\ \E i \in 1..Len(redis_streams[s]) :
          LET m == redis_streams[s][i]
          IN  /\ m.id = id
              /\ m.did = did
              /\ Len(m.path) >= 2
              /\ Last(m.path) = k

SoundMap(found) ==
    \A k \in DOMAIN found :
        /\ k \in all_rkeys(missing)
        /\ NamesEntryFor(found[k][1], found[k][2], k)

\* C32: every key of the map of found records, of the checker and of the
\* script alike, is a key of a missing record, and the stream and message id
\* recorded for it name a message of that stream whose did is the DID checked
\* and whose path has a "/" and ends with the key; so a message of another
\* DID or one whose path has no "/" is never a match.
C32_MatchSound == SoundMap(all_found) /\ SoundMap(tool_found)

\* both searches have found a key although the stream searched first also
\* holds a message of another DID for a missing key and a path without "/"
\* that is a missing key
C32_Witness ==
    /\ step = "verified"
    /\ DOMAIN all_found # {}
    /\ DOMAIN tool_found # {}
    /\ \E i, j \in 1..Len(redis_streams[streams[1]]) :
          LET m == redis_streams[streams[1]][i]
              n == redis_streams[streams[1]][j]
          IN  /\ m.did = OtherDid /\ Last(m.path) \in all_rkeys(missing)
              /\ n.did = did /\ Len(n.path) = 1 /\ Last(n.path) \in all_rkeys(missing)

\* the ids of the messages of stream s that xrevrange has handed out
ScannedIds(s) ==
    UNION {Range(RequestsOf(s)[i][4]) : i \in 1..Len(RequestsOf(s))}

\* the ids of the scanned messages of stream s that are about key k
ScannedMatches(s, k) ==
    {redis_streams[s][i].id : i \in
        {j \in 1..Len(redis_streams[s]) :
            /\ MatchesKey(redis_streams[s][j], k)
            /\ redis_streams[s][j].id \in ScannedIds(s)}}

NewestOfFirstStream ==
    \A k \in all_rkeys(missing) :
        IF k \in DOMAIN all_found
        THEN \E n \in 1..Len(streams) :
                /\ all_found[k][1] = streams[n]
                /\ all_found[k][2] \in ScannedMatches(streams[n], k)
                /\ \A id \in ScannedMatches(streams[n], k) : id <= all_found[k][2]
                /\ \A e \in 1..(n - 1) : ScannedMatches(streams[e], k) = {}
        ELSE \A n \in 1..Len(streams) : ScannedMatches(streams[n], k) = {}

FoundStays ==
    \A k \in DOMAIN all_found : k \in DOMAIN all_found' /\ all_found'[k] = all_found[k]

\* C33: in verify_missing_records_in_redis the stream and message id
\* recorded for a key never change once recorded, and they are those of the
\* newest message about the key in the first stream, firehose_live before
\* firehose_backfill, in which a message about it was scanned; matches in
\* older batches and in the later stream do not replace them.
C33_FirstMatchKept == [][FoundStays]_vars /\ []NewestOfFirstStream

\* a key was found in the first batch of the first stream, and an older
\* batch of that stream and the later stream held messages about it too
C33_Witness ==
    /\ step = "done"
    /\ \E k \in DOMAIN all_found :
          /\ all_found[k][1] = streams[1]
          /\ all_found[k][2] \in Range(RequestsOf(streams[1])[1][4])
          /\ \E id \in ScannedMatches(streams[1], k) :
                id \notin Range(RequestsOf(streams[1])[1][4])
          /\ ScannedMatches(streams[2], k) # {}

\* no xrevrange request of the checker has failed
NoRequestFailed == \A i \in 1..Len(scan_log) : scan_log[i][3] = "answered"

\* C38: verify_missing_records_in_redis and verify_all_missing, run on the
\* same streams, DID and missing records without a failing request, report
\* the same found keys and the same stream and message id for each of them.
C38_SearchesAgree ==
    step = "verified" /\ NoRequestFailed => tool_found = all_found

----------------------------------------------------------------------------
(* Claims about the running totals of the migration driver (Spec) *)

\* the fix counts of the records the run has fetched, in the order fetched
FixCountsOfRun == [i \in 1..Len(processed) |-> FixCount(store0[processed[i]])]

TotalsAtEnd ==
    pc = "done" =>
        \E counts \in {FixCountsOfRun} :
            /\ total_processed = Len(processed)
            /\ total_fixed = Cardinality({i \in 1..Len(processed) : counts[i] > 0})
            /\ total_cids_fixed = SumSeq(counts)

TotalsOrdered ==
    /\ total_fixed <= total_processed
    /\ total_fixed <= total_cids_fixed

TotalsGrow ==
    /\ total_processed' >= total_processed
    /\ total_fixed' >= total_fixed
    /\ total_cids_fixed' >= total_cids_fixed

----------------------------------------------------------------------------
(* Claims about the paging of listRecords (SpecFetch) *)

\* the requests made for collection c, in order
ListRequestsOf(c) == SelectSeq(list_log, LAMBDA e : e[1] = c)

\* an answer after which the while loop is left: no cursor, or no records
LastAnswer(e) == e[3] = "answered" /\ (e[4] = NoKey \/ e[5] = <<>>)

RECURSIVE RecordsOfPages(_)
RecordsOfPages(q) ==
    IF q = <<>> THEN <<>>
    ELSE (IF Head(q)[3] = "answered" THEN Head(q)[5] ELSE <<>>) \o RecordsOfPages(Tail(q))

\* the collection whose while loop is running
BeingFetched(c) == step = "list" /\ collections[coll] = c

\* C35: for each tracked collection the first listRecords request has no
\* cursor and every later one has the cursor the answer before it returned;
\* no request follows an answer without cursor or without records (nor a
\* failed one), and after such an answer the collection is left; the records
\* accumulated for the collection are those of all answers received, in
\* order.
C35_CursorPaging ==
    \A c \in Range(collections) :
        LET q == ListRequestsOf(c)
        IN  /\ \A i \in 1..Len(q) :
                  /\ q[i][2] = (IF i = 1 THEN NoKey ELSE q[i - 1][4])
                  /\ i < Len(q) => q[i][3] = "answered" /\ ~LastAnswer(q[i])
            /\ BeingFetched(c) =>
                  \/ q = <<>> /\ cursor = NoKey
                  \/ q # <<>> /\ Last(q)[3] = "answered" /\ ~LastAnswer(Last(q))
                       /\ cursor = Last(q)[4]
            /\ pds_records[c] = RecordsOfPages(q)

\* two collections have been fetched in two pages each: one ended by records
\* without a cursor, the other by an answer without records
C35_Witness ==
    /\ FetchOver
    /\ \E c, e \in Range(collections) :
          /\ Len(ListRequestsOf(c)) = 2
          /\ Last(ListRequestsOf(c))[3] = "answered"
          /\ Last(ListRequestsOf(c))[5] # <<>>
          /\ Last(ListRequestsOf(c))[4] = NoKey
          /\ Len(pds_records[c]) = 2
          /\ Len(ListRequestsOf(e)) = 2
          /\ Last(ListRequestsOf(e))[3] = "answered"
          /\ Last(ListRequestsOf(e))[5] = <<>>
          /\ Len(pds_records[e]) = 1

----------------------------------------------------------------------------
(* Claims about dry runs and live runs of the migration driver (Spec) *)

\* what the table at the start of a run, the limit and the batch size
\* determine: the candidates in uri order, taken by whole pages of n until
\* the limit is reached
PreviewUris(db, lim, n) ==
    LET candidates == Ascending({u \in Uris : Like(db[u])})
        whole == IF lim = 0 THEN Len(candidates) ELSE n * ((lim + n - 1) \div n)
    IN  FirstN(candidates, whole)

\* C36: a run of migrate without database faults, dry or live, handles the
\* records and reports the totals that the table at its start, the limit
\* and the batch size determine, whatever the mode: so a dry run and a live
\* run over the same table with the same limit and batch size handle the
\* same records in the same order and report the same totals of records
\* fixed and CIDs fixed.
C36_DryRunFidelity ==
    pc = "done" =>
        \E handled \in {PreviewUris(store0, limit, batch_size)} :
          \E counts \in {[i \in 1..Len(handled) |-> FixCount(store0[handled[i]])]} :
            /\ processed = handled
            /\ total_fixed = Cardinality({i \in 1..Len(handled) : counts[i] > 0})
            /\ total_cids_fixed = SumSeq(counts)

\* a live run of two batches has rewritten two records and ended
C36_Witness ==
    /\ pc = "done"
    /\ ~dry_run
    /\ batch_size = 1
    /\ Len(processed) = 2
    /\ total_fixed = 2
    /\ \A u \in Uris : store[u] # store0[u]

----------------------------------------------------------------------------
(* Claims about the three codecs (SpecCodecs) *)

\* C37: bytes_to_cid of fix_cid_corruption.py, bytes_to_cid of
\* test_fix_single_record.py and bytes_to_cid_v1 of test_cid_conversion.py,
\* given the same list, all raise or all return the same string.
C37_CodecsAgree ==
    (cid # NotRun /\ cid_single # NotRun /\ cid_v1 # NotRun) =>
        (cid = cid_single /\ cid_single = cid_v1)

====
